---- MODULE Spec2Model ----
(***************************************************************************)
(* Model of the chat front end's connection logic:                         *)
(*   - NotificationWebSocketService (src/src/services/websocketService.ts):*)
(*     the chat socket, the notification socket, their reconnect timers,   *)
(*     heartbeats and the event listener registry;                         *)
(*   - useChat.sendMessage (src/src/utils/deviceFingerprint.ts);           *)
(*   - the polling variant of useChat (src/unnamed/part_005).              *)
(*                                                                         *)
(* Every handler is one action.  A handler's code is written as an         *)
(* operator from a state record to a state record, so that a handler that  *)
(* calls other methods is the composition of their operators.  The record  *)
(* field fx lists, in order, the observable effects of the handler that    *)
(* ran last (sockets created, frames sent, listeners called, timers set);  *)
(* the variable ev names that handler and its arguments.                   *)
(***************************************************************************)
EXTENDS Integers, Sequences, FiniteSets, Bags, TLC

VARIABLES
    \* environment of the service
    websocketEnabled,        \* envConfig.websocketEnabled
    token,                   \* "memory": getAccessToken() has one; "local": only localStorage; "none"
    \* chat connection
    chatSockets,             \* readyState of every chat WebSocket object that is still alive
    chatWs,
    reconnectAttempts,
    isChatIntentionalClose,
    currentThreadId,
    chatHeartbeatInterval,
    chatIntervals,           \* interval handles of setInterval that were not cleared
    chatTimers,              \* number of pending reconnect timeouts
    isWebSocketConnected,    \* the flag of useChat its chat.connected / chat.disconnected
                             \* listeners set
    \* notification connection
    notificationSockets,
    notificationWs,
    notificationReconnectAttempts,
    isNotificationIntentionalClose,
    isNotificationConnected,
    notificationHeartbeatInterval,
    notificationIntervals,
    notificationTimers,
    \* listener registry
    eventListeners,
    webSocketListenersSetup,
    \* shared state of useChat (both variants)
    selectedThreadId,
    threads,                 \* ids of the threads of the thread list
    messages,                \* the entries of messages, each [id, thread]
    error,
    pending,                 \* bag of the requests in flight, each with the call that awaits it
    now,                     \* Date.now()
    serverMessages,          \* the messages the server has stored, oldest first
    lastMessage,             \* last_message of every thread of the thread list
    unreadCount,             \* unread_count of every thread of the thread list
    reactions,               \* the reactions of the message "m" of messages
    currentThread,           \* the id of currentThread, NoThread for null
    messagesNextCursor,
    hasMoreMessages,
    isLoadingMore,           \* of the message list component
    useChatMounted,          \* mounted components that called useChat()
    pendingUnreadCounts,     \* Map of thread id to unread count: a function on the keys
    hasInitializedThreads,
    isAutoFetchingThreads,
    activeThreadId,          \* the thread selectThread was last called for, NoThread for null
    isChatPageVisible,
    \* polling variant of useChat
    documentHidden,          \* document.hidden
    threadPollingInterval,
    messagePollingInterval,
    pollingIntervals,        \* intervals of setInterval that were not cleared
    visibilityListeners,     \* handleVisibilityChange listeners registered on document
    \* App component
    appMounted,              \* "no", "mounted", "unmounted"
    isAuthenticated,
    hasAttemptedConnection,
    wsSetupComplete,
    appAttempts,             \* calls of attemptWebSocketConnection that await initializeAuth()
    appFallbackTimers,       \* pending timeouts of the fallback of onMounted (500 ms)
    appLoginTimers,          \* pending timeouts of the watcher after a fresh login (200 ms)
    \* observation of the last handler
    ev,
    fx,
    \* history
    afterChatDisconnect,     \* disconnectFromChat() was called and connectToChat() not since
    chatDelays,              \* number of reconnects scheduled since the chat socket last
                             \* opened (since construction before the first open), up to 1
    notificationDelays       \* the same for the notification socket

serviceVars == <<websocketEnabled, token,
                 chatSockets, chatWs, reconnectAttempts, isChatIntentionalClose,
                 currentThreadId, chatHeartbeatInterval, chatIntervals, chatTimers,
                 isWebSocketConnected,
                 notificationSockets, notificationWs, notificationReconnectAttempts,
                 isNotificationIntentionalClose, isNotificationConnected,
                 notificationHeartbeatInterval, notificationIntervals, notificationTimers,
                 eventListeners, webSocketListenersSetup,
                 afterChatDisconnect, chatDelays, notificationDelays>>

pendingCountVars == <<pendingUnreadCounts, hasInitializedThreads, isAutoFetchingThreads>>

threadListVars == <<lastMessage, unreadCount, pendingCountVars>>

threadViewVars == <<currentThread, messagesNextCursor, hasMoreMessages, isLoadingMore,
                    useChatMounted, activeThreadId, isChatPageVisible>>

chatViewVars == <<reactions, threadViewVars>>

useChatVars == <<selectedThreadId, threads, messages, error, pending, now, serverMessages,
                 threadListVars, chatViewVars>>

pollingVars == <<documentHidden, threadPollingInterval, messagePollingInterval,
                 pollingIntervals, visibilityListeners>>

appVars == <<appMounted, isAuthenticated, hasAttemptedConnection, wsSetupComplete,
             appAttempts, appFallbackTimers, appLoginTimers>>

vars == <<serviceVars, useChatVars, pollingVars, appVars, ev, fx>>

----------------------------------------------------------------------------
(* Bounds *)

MaxSockets == 2          \* WebSocket objects of one kind alive at the same time

MaxIntervals == 2        \* interval handles of one kind alive at the same time

MaxTimers == 1           \* reconnect timeouts of one kind pending at the same time

(* Program constants *)

maxReconnectAttempts == 5

reconnectInterval == 1000

MaxChatDelay == 30000

NULL == 0

NoThread == "null"

NoMessage == <<>>

NoCursor == 0            \* null for a cursor

MaxMounted == 1          \* components that use useChat mounted at the same time

Threads == {"A", "B"}

CloseCodes == {1000, 1006}

SocketIds == 1..MaxSockets

IntervalIds == 1..MaxIntervals

ReadyStates == {"CONNECTING", "OPEN", "CLOSING", "CLOSED"}

Min(a, b) == IF a <= b THEN a ELSE b

RECURSIVE Pow2(_)
Pow2(n) == IF n <= 0 THEN 1 ELSE 2 * Pow2(n - 1)

\* the lowest element of a non-empty set of handles
Lowest(S) == CHOOSE x \in S : \A y \in S : x <= y

----------------------------------------------------------------------------
(* Listener registry: on, off, removeAllListeners, trigger *)

\* callbacks that throw when called
Throwing == {"cbThrows"}

on(listeners, event, callback) ==
    IF event \in DOMAIN listeners
    THEN [listeners EXCEPT ![event] = Append(@, callback)]
    ELSE [e \in DOMAIN listeners \cup {event} |->
            IF e = event THEN <<callback>> ELSE listeners[e]]

\* Array.prototype.indexOf: the first index of callback, 0 when absent
IndexOf(callbacks, callback) ==
    IF \E i \in 1..Len(callbacks) : callbacks[i] = callback
    THEN Lowest({i \in 1..Len(callbacks) : callbacks[i] = callback})
    ELSE 0

\* Array.prototype.splice(index, 1)
Splice1(callbacks, index) ==
    [i \in 1..(Len(callbacks) - 1) |->
        IF i < index THEN callbacks[i] ELSE callbacks[i + 1]]

off(listeners, event, callback) ==
    IF event \in DOMAIN listeners /\ IndexOf(listeners[event], callback) > 0
    THEN [listeners EXCEPT ![event] = Splice1(@, IndexOf(@, callback))]
    ELSE listeners

removeAllListeners(listeners, event) ==
    [e \in DOMAIN listeners \ {event} |-> listeners[e]]

\* callbacks.forEach with the try/catch around each call: the effects of
\* calling callbacks[i..] in order
RECURSIVE CallEach(_, _, _, _)
CallEach(callbacks, i, event, data) ==
    IF i > Len(callbacks) THEN <<>>
    ELSE <<<<"call", event, callbacks[i], data>>>>
         \o (IF callbacks[i] \in Throwing
             THEN <<<<"caught", event, callbacks[i]>>>> ELSE <<>>)
         \o CallEach(callbacks, i + 1, event, data)

\* the same loop without the try/catch: the first exception ends the loop
\* and leaves trigger
RECURSIVE CallEachNoCatch(_, _, _, _)
CallEachNoCatch(callbacks, i, event, data) ==
    IF i > Len(callbacks) THEN <<>>
    ELSE IF callbacks[i] \in Throwing
         THEN <<<<"call", event, callbacks[i], data>>, <<"throw", event, callbacks[i]>>>>
         ELSE <<<<"call", event, callbacks[i], data>>>>
              \o CallEachNoCatch(callbacks, i + 1, event, data)

triggerNoCatch(s, event, data) ==
    [s EXCEPT !.fx = @ \o <<<<"trigger", event, data>>>>
                       \o (IF event \in DOMAIN eventListeners
                           THEN CallEachNoCatch(eventListeners[event], 1, event, data)
                           ELSE <<>>)]

trigger(s, event, data) ==
    [s EXCEPT !.fx = @ \o <<<<"trigger", event, data>>>>
                       \o (IF event \in DOMAIN eventListeners
                           THEN CallEach(eventListeners[event], 1, event, data)
                           ELSE <<>>)]

\* the events useChat.setupWebSocketListeners registers a listener for, in order
UseChatEvents ==
    <<"chat.connected", "chat.disconnected", "chat.message.new", "chat.message.updated",
      "chat.message.deleted", "chat.typing.start", "chat.typing.stop", "chat.receipt.read",
      "chat.reaction.added", "chat.reaction.removed", "chat.thread.updated",
      "chat.member.added", "chat.member.removed", "chat.ping", "chat.pong",
      "chat.unread.update", "unread.count.update", "unread.counts.initial", "chat.error">>

RECURSIVE OnEach(_, _, _, _)
OnEach(listeners, events, i, callback) ==
    IF i > Len(events) THEN listeners
    ELSE OnEach(on(listeners, events[i], callback), events, i + 1, callback)

\* setupWebSocketListeners without the test of webSocketListenersSetup
setupWebSocketListenersAgain(listeners, done) ==
    OnEach(listeners, UseChatEvents, 1, "useChat")

\* the registry after setupWebSocketListeners
setupWebSocketListeners(listeners, done) ==
    IF done THEN listeners ELSE OnEach(listeners, UseChatEvents, 1, "useChat")

----------------------------------------------------------------------------
(* The WebSocket objects of the browser *)

\* new WebSocket(url): a handle that is not in use; NULL when the bound on
\* live sockets is reached
FreeSocket(sockets) ==
    IF \E i \in SocketIds : sockets[i] = "NONE"
    THEN Lowest({i \in SocketIds : sockets[i] = "NONE"})
    ELSE NULL

\* WebSocket.close(): a CONNECTING or OPEN socket starts closing, the close
\* event follows later; no effect on a CLOSING or CLOSED socket
CloseSocket(sockets, i) ==
    IF sockets[i] \in {"CONNECTING", "OPEN"}
    THEN [sockets EXCEPT ![i] = "CLOSING"]
    ELSE sockets

\* a CLOSED socket that the service does not reference is gone
Collect(sockets, ws) ==
    [i \in SocketIds |-> IF sockets[i] = "CLOSED" /\ i # ws THEN "NONE" ELSE sockets[i]]

\* Object identity: the sockets that are alive after a handler are given the
\* handles 1, 2, ... again, the socket the service references first, so that
\* two states that differ only in the handles are one state.  The handles in
\* ev and fx are those of the state the handler started in.
Rename(sockets, ws) ==
    LET live == Collect(sockets, ws)
        first == IF ws # NULL THEN 1 ELSE 0
        nC == Cardinality({i \in SocketIds : i # ws /\ live[i] = "CONNECTING"})
        nO == Cardinality({i \in SocketIds : i # ws /\ live[i] = "OPEN"})
        nL == Cardinality({i \in SocketIds : i # ws /\ live[i] = "CLOSING"})
    IN [i \in SocketIds |->
            IF i <= first THEN live[ws]
            ELSE IF i - first <= nC THEN "CONNECTING"
            ELSE IF i - first <= nC + nO THEN "OPEN"
            ELSE IF i - first <= nC + nO + nL THEN "CLOSING"
            ELSE "NONE"]

Fx(s, effect) == [s EXCEPT !.fx = Append(@, effect)]

----------------------------------------------------------------------------
(* Chat connection *)

ChatState ==
    [sockets |-> chatSockets, chatWs |-> chatWs,
     reconnectAttempts |-> reconnectAttempts,
     isChatIntentionalClose |-> isChatIntentionalClose,
     currentThreadId |-> currentThreadId,
     chatHeartbeatInterval |-> chatHeartbeatInterval,
     intervals |-> chatIntervals, timers |-> chatTimers,
     delays |-> chatDelays, full |-> FALSE, fx |-> <<>>]

stopChatHeartbeat(s) ==
    IF s.chatHeartbeatInterval # NULL
    THEN [s EXCEPT !.intervals = @ \ {s.chatHeartbeatInterval},
                   !.chatHeartbeatInterval = NULL,
                   !.fx = Append(@, <<"clearInterval", "chat", s.chatHeartbeatInterval>>)]
    ELSE s

\* startChatHeartbeat without the stopChatHeartbeat() call
startChatHeartbeatNoStop(s) ==
    IF IntervalIds \ s.intervals = {} THEN [s EXCEPT !.full = TRUE]
    ELSE LET id == Lowest(IntervalIds \ s.intervals)
         IN [s EXCEPT !.chatHeartbeatInterval = id,
                      !.intervals = @ \cup {id},
                      !.fx = Append(@, <<"setInterval", "chat", id>>)]

startChatHeartbeat(s) ==
    LET s1 == stopChatHeartbeat(s)
    IN IF IntervalIds \ s1.intervals = {} THEN [s1 EXCEPT !.full = TRUE]
       ELSE LET id == Lowest(IntervalIds \ s1.intervals)
            IN [s1 EXCEPT !.chatHeartbeatInterval = id,
                          !.intervals = @ \cup {id},
                          !.fx = Append(@, <<"setInterval", "chat", id>>)]

\* disconnectFromChat that closes the socket and keeps isChatIntentionalClose
\* and currentThreadId as they are
disconnectFromChatKeep(s) ==
    LET s1 == stopChatHeartbeat(s)
    IN IF s1.chatWs # NULL
       THEN [s1 EXCEPT !.sockets = CloseSocket(@, s1.chatWs),
                       !.chatWs = NULL,
                       !.fx = Append(@, <<"close", "chat", s1.chatWs>>)]
       ELSE s1

disconnectFromChat(s) ==
    LET s1 == stopChatHeartbeat([s EXCEPT !.isChatIntentionalClose = TRUE])
        s2 == IF s1.chatWs # NULL
              THEN [s1 EXCEPT !.sockets = CloseSocket(@, s1.chatWs),
                              !.chatWs = NULL,
                              !.fx = Append(@, <<"close", "chat", s1.chatWs>>)]
              ELSE s1
    IN [s2 EXCEPT !.currentThreadId = NoThread]

\* this.chatWs = new WebSocket(wsUrl) with the four handlers bound
newChatWebSocket(s) ==
    LET id == FreeSocket(s.sockets)
    IN IF id = NULL THEN [s EXCEPT !.full = TRUE]
       ELSE [s EXCEPT !.sockets[id] = "CONNECTING",
                      !.chatWs = id,
                      !.fx = Append(@, <<"new", "chat", id>>)]

connectToChat(s, threadId) ==
    IF ~websocketEnabled THEN s
    ELSE IF token = "none"
    THEN Fx(s, <<"throw", "No authentication token available for chat">>)
    ELSE LET s1 == IF s.chatWs # NULL /\ s.currentThreadId # threadId
                   THEN disconnectFromChat(s) ELSE s
         IN IF s1.chatWs # NULL /\ s1.sockets[s1.chatWs] = "OPEN"
               /\ s1.currentThreadId = threadId
            THEN s1
            ELSE newChatWebSocket([s1 EXCEPT !.isChatIntentionalClose = FALSE,
                                             !.currentThreadId = threadId])

sendChat(s, frame) ==
    IF s.chatWs # NULL /\ s.sockets[s.chatWs] = "OPEN"
    THEN Fx(s, <<"send", "chat", s.chatWs, frame>>)
    ELSE Fx(s, <<"error", "Chat WebSocket is not connected">>)

sendChatPong(s) == sendChat(s, "pong")

handleChatOpen(s) ==
    LET s1 == startChatHeartbeat(s)
    IN trigger([s1 EXCEPT !.delays = 0], "chat.connected", s1.currentThreadId)

\* Math.min(reconnectInterval * Math.pow(2, attempts - 1), 30000)
ChatReconnectDelay(attempts) ==
    Min(reconnectInterval * Pow2(attempts - 1), MaxChatDelay)

\* the setTimeout callback of scheduleChatReconnect
chatReconnectTimeout(s) ==
    IF ~s.isChatIntentionalClose /\ s.currentThreadId # NoThread
    THEN connectToChat(s, s.currentThreadId)
    ELSE s

scheduleChatReconnect(s) ==
    IF s.currentThreadId = NoThread THEN s
    ELSE IF s.timers >= MaxTimers THEN [s EXCEPT !.full = TRUE]
    ELSE LET attempts == s.reconnectAttempts + 1
             delay == ChatReconnectDelay(attempts)
         IN [s EXCEPT !.reconnectAttempts = attempts,
                      !.timers = @ + 1,
                      !.delays = Min(@ + 1, 1),
                      !.fx = Append(@, <<"setTimeout", "chat", delay>>)]

\* handleChatClose with <= for < in the retry limit
handleChatCloseOffByOne(s, code) ==
    LET s1 == stopChatHeartbeat(s)
        s2 == trigger(s1, "chat.disconnected", <<code, s1.currentThreadId>>)
    IN IF ~s2.isChatIntentionalClose /\ code # 1000
          /\ s2.reconnectAttempts <= maxReconnectAttempts
       THEN scheduleChatReconnect(s2)
       ELSE s2

handleChatClose(s, code) ==
    LET s1 == stopChatHeartbeat(s)
        s2 == trigger(s1, "chat.disconnected", <<code, s1.currentThreadId>>)
    IN IF ~s2.isChatIntentionalClose /\ code # 1000
          /\ s2.reconnectAttempts < maxReconnectAttempts
       THEN scheduleChatReconnect(s2)
       ELSE s2

handleChatError(s) == trigger(s, "chat.error", "event")

\* the setInterval callback of startChatHeartbeat
chatHeartbeatTick(s) ==
    IF s.chatWs # NULL /\ s.sockets[s.chatWs] = "OPEN"
    THEN sendChat(s, "ping")
    ELSE s

----------------------------------------------------------------------------
(* Messages of the chat socket *)

\* ChatEventType
ChatEventTypes ==
    {"connection.established", "message.new", "message.updated", "message.deleted",
     "typing.start", "typing.stop", "receipt.read", "reaction.added",
     "reaction.removed", "member.added", "member.removed", "thread.updated",
     "ping", "pong", "error"}

\* types that are not of ChatEventType
OtherTypes == {"chat.unread.update", "unread.update", "presence"}

\* texts of the message field, as sequences of characters; <<>> is the
\* absent (or empty) field
Texts ==
    {<<>>,
     <<"P", "i", "n", "g", " ", "l", "a", "t", "e">>,
     <<"n", "o", " ", "P", "I", "N", "G">>,
     <<"s", "h", "i", "p", "p", "i", "n", "g">>,
     <<"p", "i", "n">>,
     <<"d", "e", "n", "i", "e", "d">>}

LowerOf == ("P" :> "p") @@ ("I" :> "i") @@ ("N" :> "n") @@ ("G" :> "g")

\* String.prototype.toLowerCase
ToLowerCase(text) ==
    [i \in 1..Len(text) |-> IF text[i] \in DOMAIN LowerOf THEN LowerOf[text[i]] ELSE text[i]]

\* String.prototype.includes
Includes(text, part) ==
    \E i \in 0..(Len(text) - Len(part)) : SubSeq(text, i + 1, i + Len(part)) = part

\* raw frames: text that is not JSON, or the JSON of an object
Payloads ==
    [type : (ChatEventTypes \ {"error"}) \cup OtherTypes, message : {<<>>}]
    \cup [type : {"error"}, message : Texts]

RawFrames == [valid : {TRUE}, value : Payloads] \cup {[valid |-> FALSE, value |-> "}{"]}

\* the frames the connection model delivers
FewPayloads == {p \in Payloads : p.type \in {"ping", "pong", "message.new"}}

FewFrames == [valid : {TRUE}, value : FewPayloads]

\* the switch of handleChatMessage with includes('ping') on the text as received
chatMessageSwitchCaseSensitive(s, data) ==
    CASE data.type = "connection.established" -> trigger(s, "chat.connection.established", data)
      [] data.type = "ping" -> trigger(sendChatPong(s), "chat.ping", data)
      [] data.type = "error" ->
            IF data.message # <<>> /\ Includes(data.message, <<"p", "i", "n", "g">>)
            THEN s
            ELSE trigger(s, "chat.error", data)
      [] OTHER -> trigger(s, "chat." \o data.type, data)

\* the switch of handleChatMessage, for a type that is not 'chat.unread.update'
chatMessageSwitch(s, data) ==
    CASE data.type = "connection.established" -> trigger(s, "chat.connection.established", data)
      [] data.type = "message.new" -> trigger(s, "chat.message.new", data)
      [] data.type = "message.updated" -> trigger(s, "chat.message.updated", data)
      [] data.type = "message.deleted" -> trigger(s, "chat.message.deleted", data)
      [] data.type = "typing.start" -> trigger(s, "chat.typing.start", data)
      [] data.type = "typing.stop" -> trigger(s, "chat.typing.stop", data)
      [] data.type = "receipt.read" -> trigger(s, "chat.receipt.read", data)
      [] data.type = "reaction.added" -> trigger(s, "chat.reaction.added", data)
      [] data.type = "reaction.removed" -> trigger(s, "chat.reaction.removed", data)
      [] data.type = "member.added" -> trigger(s, "chat.member.added", data)
      [] data.type = "member.removed" -> trigger(s, "chat.member.removed", data)
      [] data.type = "thread.updated" -> trigger(s, "chat.thread.updated", data)
      [] data.type = "ping" -> trigger(sendChatPong(s), "chat.ping", data)
      [] data.type = "pong" -> trigger(s, "chat.pong", data)
      [] data.type = "error" ->
            IF data.message # <<>> /\ Includes(ToLowerCase(data.message), <<"p", "i", "n", "g">>)
            THEN s
            ELSE trigger(s, "chat.error", data)
      [] OTHER -> trigger(s, "chat." \o data.type, data)

handleChatMessage(s, raw) ==
    IF ~raw.valid THEN Fx(s, <<"error", "Failed to parse chat WebSocket message">>)
    ELSE IF raw.value.type = "chat.unread.update"
         THEN trigger(s, "chat.unread.update", raw.value)
         ELSE chatMessageSwitch(s, raw.value)

----------------------------------------------------------------------------
(* Actions of the chat connection *)

notificationVars ==
    <<notificationSockets, notificationWs, notificationReconnectAttempts,
      isNotificationIntentionalClose, isNotificationConnected,
      notificationHeartbeatInterval, notificationIntervals, notificationTimers,
      notificationDelays>>

chatVars ==
    <<chatSockets, chatWs, reconnectAttempts, isChatIntentionalClose, currentThreadId,
      chatHeartbeatInterval, chatIntervals, chatTimers, chatDelays, afterChatDisconnect,
      isWebSocketConnected>>

registryVars == <<eventListeners, webSocketListenersSetup>>

envVars == <<websocketEnabled, token>>

\* The two connections share no state (the registry is only read), so they
\* are explored one at a time: a behaviour uses the chat connection while the
\* notification connection is as the constructor left it, or the other way round.
ChatUnused ==
    /\ chatWs = NULL /\ \A i \in SocketIds : chatSockets[i] = "NONE"
    /\ reconnectAttempts = 0 /\ ~isChatIntentionalClose /\ chatTimers = 0

NotificationUnused ==
    /\ notificationWs = NULL /\ \A i \in SocketIds : notificationSockets[i] = "NONE"
    /\ notificationReconnectAttempts = 0 /\ ~isNotificationIntentionalClose
    /\ notificationTimers = 0

\* the flag isWebSocketConnected after the listeners of useChat for
\* 'chat.connected' (sets it) and 'chat.disconnected' (clears it) were called
\* as the effects say
RECURSIVE ConnectedAfter(_, _, _)
ConnectedAfter(flag, effects, i) ==
    IF i > Len(effects) THEN flag
    ELSE LET e == effects[i]
             listener == e[1] = "call" /\ e[3] = "useChat"
         IN ConnectedAfter(IF listener /\ e[2] = "chat.connected" THEN TRUE
                           ELSE IF listener /\ e[2] = "chat.disconnected" THEN FALSE
                           ELSE flag,
                           effects, i + 1)

\* the handler threw
Threw(effects) == \E i \in DOMAIN effects : effects[i][1] = "throw"

\* the handler named op ran from the current state and left the chat state s;
\* connectToChat and disconnectFromChat are called through useChat's
\* connectToChatWebSocket, which catches what connectToChat throws and sets
\* error, and disconnectFromChatWebSocket, which clears isWebSocketConnected
ChatAssign(result, op, sock, arg) ==
    LET s == result IN
    /\ ~s.full
    /\ chatSockets' = Rename(s.sockets, s.chatWs)
    /\ chatWs' = (IF s.chatWs = NULL THEN NULL ELSE 1)
    /\ reconnectAttempts' = s.reconnectAttempts
    /\ isChatIntentionalClose' = s.isChatIntentionalClose
    /\ currentThreadId' = s.currentThreadId
    /\ chatHeartbeatInterval' = s.chatHeartbeatInterval
    /\ chatIntervals' = s.intervals
    /\ chatTimers' = s.timers
    /\ chatDelays' = s.delays
    /\ isWebSocketConnected' = IF op \in {"disconnectFromChat", "useChat.unmounted"} THEN FALSE
                               ELSE ConnectedAfter(isWebSocketConnected, s.fx, 1)
    /\ error' = IF op = "connectToChat" /\ Threw(s.fx)
                THEN "No authentication token available for chat"
                ELSE error
    /\ fx' = s.fx
    /\ ev' = [op |-> op, sock |-> sock, arg |-> arg]

\* a handler of the chat connection on its own
ChatStep(result, op, sock, arg) ==
    /\ NotificationUnused
    /\ ChatAssign(result, op, sock, arg)
    /\ UNCHANGED <<notificationVars, registryVars, envVars, pollingVars, appVars,
                   selectedThreadId, threads, messages, pending, now, serverMessages,
                   threadListVars, chatViewVars>>

\* a component calls useChat()
UseChat ==
    /\ useChatMounted < MaxMounted
    /\ useChatMounted' = useChatMounted + 1
    /\ eventListeners' = setupWebSocketListeners(eventListeners, webSocketListenersSetup)
    /\ webSocketListenersSetup' = TRUE
    /\ ev' = [op |-> "useChat", sock |-> NULL, arg |-> NoThread]
    /\ fx' = <<>>
    /\ UNCHANGED <<envVars, chatVars, notificationVars, pollingVars, appVars, selectedThreadId,
                   threads, messages, error, pending, now, serverMessages, threadListVars,
                   reactions, currentThread, messagesNextCursor, hasMoreMessages,
                   isLoadingMore, activeThreadId, isChatPageVisible>>

\* useChat.connectToChatWebSocket, from selectThread: a function of the object
\* useChat() returns
ConnectToChat(threadId) ==
    /\ webSocketListenersSetup
    /\ ChatStep(connectToChat(ChatState, threadId), "connectToChat", NULL, threadId)
    /\ afterChatDisconnect' = FALSE

\* useChat.disconnectFromChatWebSocket, from leaveThread, the chat page and onUnmounted
DisconnectFromChat ==
    /\ webSocketListenersSetup
    /\ NotificationUnused
    /\ ChatAssign(disconnectFromChat(ChatState), "disconnectFromChat", NULL, NoThread)
    /\ afterChatDisconnect' = TRUE
    /\ activeThreadId' = NoThread
    /\ UNCHANGED <<notificationVars, registryVars, envVars, pollingVars, appVars,
                   selectedThreadId, threads, messages, pending, now, serverMessages,
                   threadListVars, reactions, currentThread, messagesNextCursor,
                   hasMoreMessages, isLoadingMore, useChatMounted, isChatPageVisible>>

ChatSocketOpen(i) ==
    /\ chatSockets[i] = "CONNECTING"
    /\ ChatStep(handleChatOpen([ChatState EXCEPT !.sockets[i] = "OPEN"]),
                "handleChatOpen", i, NoThread)
    /\ UNCHANGED afterChatDisconnect

ChatSocketMessage(i, raw) ==
    /\ chatSockets[i] = "OPEN"
    /\ ChatStep(handleChatMessage(ChatState, raw), "handleChatMessage", i, raw)
    /\ UNCHANGED afterChatDisconnect

ChatSocketError(i) ==
    /\ chatSockets[i] \in {"CONNECTING", "OPEN"}
    /\ ChatStep(handleChatError(ChatState), "handleChatError", i, NoThread)
    /\ UNCHANGED afterChatDisconnect

ChatSocketClose(i, code) ==
    /\ chatSockets[i] \in {"CONNECTING", "OPEN", "CLOSING"}
    /\ ChatStep(handleChatClose([ChatState EXCEPT !.sockets[i] = "CLOSED"], code),
                "handleChatClose", i, code)
    /\ UNCHANGED afterChatDisconnect

ChatReconnectTimeout ==
    /\ chatTimers > 0
    /\ ChatStep(chatReconnectTimeout([ChatState EXCEPT !.timers = @ - 1]),
                "chatReconnectTimeout", NULL, NoThread)
    /\ UNCHANGED afterChatDisconnect

ChatHeartbeatTick(id) ==
    /\ id \in chatIntervals
    /\ ChatStep(chatHeartbeatTick(ChatState), "chatHeartbeatTick", id, NoThread)
    /\ UNCHANGED afterChatDisconnect

\* login, logout, token refresh
SetToken(t) ==
    /\ token # t
    /\ token' = t
    /\ ev' = [op |-> "setToken", sock |-> NULL, arg |-> t]
    /\ fx' = <<>>
    /\ UNCHANGED <<websocketEnabled, chatVars, notificationVars, registryVars,
                   useChatVars, pollingVars, appVars>>

----------------------------------------------------------------------------
(* Notification connection *)

NotificationState ==
    [sockets |-> notificationSockets, notificationWs |-> notificationWs,
     notificationReconnectAttempts |-> notificationReconnectAttempts,
     isNotificationIntentionalClose |-> isNotificationIntentionalClose,
     isNotificationConnected |-> isNotificationConnected,
     notificationHeartbeatInterval |-> notificationHeartbeatInterval,
     intervals |-> notificationIntervals, timers |-> notificationTimers,
     delays |-> notificationDelays, full |-> FALSE, fx |-> <<>>]

stopNotificationHeartbeat(s) ==
    IF s.notificationHeartbeatInterval # NULL
    THEN [s EXCEPT !.intervals = @ \ {s.notificationHeartbeatInterval},
                   !.notificationHeartbeatInterval = NULL,
                   !.fx = Append(@, <<"clearInterval", "notification",
                                      s.notificationHeartbeatInterval>>)]
    ELSE s

startNotificationHeartbeat(s) ==
    LET s1 == stopNotificationHeartbeat(s)
    IN IF IntervalIds \ s1.intervals = {} THEN [s1 EXCEPT !.full = TRUE]
       ELSE LET id == Lowest(IntervalIds \ s1.intervals)
            IN [s1 EXCEPT !.notificationHeartbeatInterval = id,
                          !.intervals = @ \cup {id},
                          !.fx = Append(@, <<"setInterval", "notification", id>>)]

connectToNotifications(s) ==
    IF s.notificationWs # NULL /\ s.sockets[s.notificationWs] = "OPEN" THEN s
    ELSE IF token # "memory"
    THEN Fx(s, <<"throw", "No authentication token available for notification WebSocket">>)
    ELSE LET id == FreeSocket(s.sockets)
         IN IF id = NULL THEN [s EXCEPT !.full = TRUE]
            ELSE [s EXCEPT !.isNotificationIntentionalClose = FALSE,
                           !.sockets[id] = "CONNECTING",
                           !.notificationWs = id,
                           !.isNotificationConnected = TRUE,
                           !.fx = Append(@, <<"new", "notification", id>>)]

disconnectFromNotifications(s) ==
    LET s1 == stopNotificationHeartbeat([s EXCEPT !.isNotificationIntentionalClose = TRUE])
        s2 == IF s1.notificationWs # NULL
              THEN [s1 EXCEPT !.sockets = CloseSocket(@, s1.notificationWs),
                              !.notificationWs = NULL,
                              !.fx = Append(@, <<"close", "notification", s1.notificationWs>>)]
              ELSE s1
    IN [s2 EXCEPT !.isNotificationConnected = FALSE]

handleNotificationOpen(s) ==
    LET s1 == startNotificationHeartbeat([s EXCEPT !.notificationReconnectAttempts = 0,
                                                   !.delays = 0])
    IN trigger(s1, "notification.connected", "timestamp")

\* reconnectInterval * Math.pow(2, attempts - 1)
NotificationReconnectDelay(attempts) == reconnectInterval * Pow2(attempts - 1)

\* the setTimeout callback of scheduleNotificationReconnect
notificationReconnectTimeout(s) ==
    IF ~s.isNotificationIntentionalClose
       /\ s.notificationReconnectAttempts <= maxReconnectAttempts
    THEN connectToNotifications(s)
    ELSE s

scheduleNotificationReconnect(s) ==
    IF s.timers >= MaxTimers THEN [s EXCEPT !.full = TRUE] ELSE
    LET attempts == s.notificationReconnectAttempts + 1
        delay == NotificationReconnectDelay(attempts)
    IN [s EXCEPT !.notificationReconnectAttempts = attempts,
                 !.timers = @ + 1,
                 !.delays = Min(@ + 1, 1),
                 !.fx = Append(@, <<"setTimeout", "notification", delay>>)]

handleNotificationClose(s, code) ==
    LET s1 == stopNotificationHeartbeat([s EXCEPT !.isNotificationConnected = FALSE])
        s2 == IF ~s1.isNotificationIntentionalClose
                 /\ s1.notificationReconnectAttempts < maxReconnectAttempts
              THEN scheduleNotificationReconnect(s1)
              ELSE s1
    IN trigger(s2, "notification.disconnected", code)

handleNotificationError(s) == trigger(s, "notification.error", "event")

\* the setInterval callback of startNotificationHeartbeat
notificationHeartbeatTick(s) ==
    IF s.notificationWs # NULL /\ s.sockets[s.notificationWs] = "OPEN"
    THEN Fx(s, <<"send", "notification", s.notificationWs, "ping">>)
    ELSE s

\* frames of the notification socket
NotificationFrames ==
    [valid : {TRUE}, value : [type : {"chat.unread.update", "pong"}, message : {<<>>}]]

handleNotificationMessage(s, raw) ==
    IF ~raw.valid THEN Fx(s, <<"error", "Failed to parse notification WebSocket message">>)
    ELSE IF raw.value.type = "chat.unread.update"
         THEN trigger(s, "chat.unread.update", raw.value)
    ELSE IF raw.value.type = "unread.counts.initial"
         THEN trigger(s, "unread.counts.initial", raw.value)
    ELSE IF raw.value.type = "connection.success"
         THEN trigger(s, "notification.connection.success", raw.value)
    ELSE trigger(trigger(s, "notification." \o raw.value.type, raw.value),
                 "notification.message", raw.value)

----------------------------------------------------------------------------
(* Actions of the notification connection *)

NotificationStep(result, op, sock, arg) ==
    LET s == result IN
    /\ ChatUnused
    /\ ~s.full
    /\ notificationSockets' = Rename(s.sockets, s.notificationWs)
    /\ notificationWs' = (IF s.notificationWs = NULL THEN NULL ELSE 1)
    /\ notificationReconnectAttempts' = s.notificationReconnectAttempts
    /\ isNotificationIntentionalClose' = s.isNotificationIntentionalClose
    /\ isNotificationConnected' = s.isNotificationConnected
    /\ notificationHeartbeatInterval' = s.notificationHeartbeatInterval
    /\ notificationIntervals' = s.intervals
    /\ notificationTimers' = s.timers
    /\ notificationDelays' = s.delays
    /\ fx' = s.fx
    /\ ev' = [op |-> op, sock |-> sock, arg |-> arg]
    /\ UNCHANGED <<chatVars, registryVars, envVars, useChatVars, pollingVars, appVars>>

\* App.attemptWebSocketConnection, WebSocketTest.connectNotifications
ConnectToNotifications ==
    NotificationStep(connectToNotifications(NotificationState),
                     "connectToNotifications", NULL, NoThread)

\* App on logout and on unmount, WebSocketTest.disconnectNotifications
DisconnectFromNotifications ==
    NotificationStep(disconnectFromNotifications(NotificationState),
                     "disconnectFromNotifications", NULL, NoThread)

NotificationSocketOpen(i) ==
    /\ notificationSockets[i] = "CONNECTING"
    /\ NotificationStep(handleNotificationOpen([NotificationState EXCEPT !.sockets[i] = "OPEN"]),
                        "handleNotificationOpen", i, NoThread)

NotificationSocketMessage(i, raw) ==
    /\ notificationSockets[i] = "OPEN"
    /\ NotificationStep(handleNotificationMessage(NotificationState, raw),
                        "handleNotificationMessage", i, raw)

NotificationSocketError(i) ==
    /\ notificationSockets[i] \in {"CONNECTING", "OPEN"}
    /\ NotificationStep(handleNotificationError(NotificationState),
                        "handleNotificationError", i, NoThread)

NotificationSocketClose(i, code) ==
    /\ notificationSockets[i] \in {"CONNECTING", "OPEN", "CLOSING"}
    /\ NotificationStep(handleNotificationClose(
                            [NotificationState EXCEPT !.sockets[i] = "CLOSED"], code),
                        "handleNotificationClose", i, code)

NotificationReconnectTimeout ==
    /\ notificationTimers > 0
    /\ NotificationStep(notificationReconnectTimeout(
                            [NotificationState EXCEPT !.timers = @ - 1]),
                        "notificationReconnectTimeout", NULL, NoThread)

NotificationHeartbeatTick(id) ==
    /\ id \in notificationIntervals
    /\ NotificationStep(notificationHeartbeatTick(NotificationState),
                        "notificationHeartbeatTick", id, NoThread)

NotificationNext ==
    \/ ConnectToNotifications
    \/ DisconnectFromNotifications
    \/ \E i \in SocketIds : NotificationSocketOpen(i)
    \/ \E i \in SocketIds, raw \in NotificationFrames : NotificationSocketMessage(i, raw)
    \/ \E i \in SocketIds : NotificationSocketError(i)
    \/ \E i \in SocketIds, code \in CloseCodes : NotificationSocketClose(i, code)
    \/ NotificationReconnectTimeout
    \/ \E id \in IntervalIds : NotificationHeartbeatTick(id)

ChatNext ==
    \/ \E t \in Threads : ConnectToChat(t)
    \/ DisconnectFromChat
    \/ \E i \in SocketIds : ChatSocketOpen(i)
    \/ \E i \in SocketIds, raw \in FewFrames : ChatSocketMessage(i, raw)
    \/ \E i \in SocketIds : ChatSocketError(i)
    \/ \E i \in SocketIds, code \in CloseCodes : ChatSocketClose(i, code)
    \/ ChatReconnectTimeout
    \/ \E id \in IntervalIds : ChatHeartbeatTick(id)

Init ==
    /\ websocketEnabled \in BOOLEAN
    /\ token = "none"
    /\ chatSockets = [i \in SocketIds |-> "NONE"]
    /\ chatWs = NULL
    /\ reconnectAttempts = 0
    /\ isChatIntentionalClose = FALSE
    /\ currentThreadId = NoThread
    /\ chatHeartbeatInterval = NULL
    /\ chatIntervals = {}
    /\ chatTimers = 0
    /\ isWebSocketConnected = FALSE
    /\ notificationSockets = [i \in SocketIds |-> "NONE"]
    /\ notificationWs = NULL
    /\ notificationReconnectAttempts = 0
    /\ isNotificationIntentionalClose = FALSE
    /\ isNotificationConnected = FALSE
    /\ notificationHeartbeatInterval = NULL
    /\ notificationIntervals = {}
    /\ notificationTimers = 0
    /\ eventListeners = <<>>
    /\ webSocketListenersSetup = FALSE
    /\ ev = [op |-> "constructor", sock |-> NULL, arg |-> NoThread]
    /\ fx = <<>>
    /\ afterChatDisconnect = FALSE
    /\ chatDelays = 0
    /\ notificationDelays = 0
    /\ selectedThreadId = NoThread
    /\ threads = <<>>
    /\ messages = <<>>
    /\ error = "null"
    /\ pending = EmptyBag
    /\ now = 0
    /\ serverMessages = <<>>
    /\ lastMessage = [t \in Threads |-> NoMessage]
    /\ unreadCount = [t \in Threads |-> 0]
    /\ reactions = <<>>
    /\ currentThread = NoThread
    /\ messagesNextCursor = NoCursor
    /\ hasMoreMessages = TRUE
    /\ isLoadingMore = FALSE
    /\ useChatMounted = 0
    /\ activeThreadId = NoThread
    /\ isChatPageVisible = FALSE
    /\ pendingUnreadCounts = <<>>
    /\ hasInitializedThreads = FALSE
    /\ isAutoFetchingThreads = FALSE
    /\ documentHidden = FALSE
    /\ threadPollingInterval = NULL
    /\ messagePollingInterval = NULL
    /\ pollingIntervals = {}
    /\ visibilityListeners = 0
    /\ appMounted = "no"
    /\ isAuthenticated = FALSE
    /\ hasAttemptedConnection = FALSE
    /\ wsSetupComplete = FALSE
    /\ appAttempts = 0
    /\ appFallbackTimers = 0
    /\ appLoginTimers = 0

Next ==
    \/ UseChat
    \/ ChatNext
    \/ NotificationNext
    \/ \E t \in {"none", "local", "memory"} : SetToken(t)

Spec == Init /\ [][Next]_vars

----------------------------------------------------------------------------
(* The App component: it connects the notification socket when the user is *)
(* authenticated and disconnects it on logout and on unmount               *)

MaxAttempts == 2         \* calls of attemptWebSocketConnection that await at the same time

MaxLoginTimers == 1      \* pending timeouts of the watcher after a fresh login

\* setupNotificationWebSocket: the listeners of the App component
setupNotificationWebSocket(listeners, done) ==
    IF done THEN listeners
    ELSE on(on(on(listeners, "chat.unread.update", "App"),
               "notification.connected", "App"),
            "notification.disconnected", "App")

\* the App component left the notification state s
AppStep(result, op, arg) ==
    LET s == result IN
    /\ ChatUnused
    /\ ~s.full
    /\ notificationSockets' = Rename(s.sockets, s.notificationWs)
    /\ notificationWs' = (IF s.notificationWs = NULL THEN NULL ELSE 1)
    /\ notificationReconnectAttempts' = s.notificationReconnectAttempts
    /\ isNotificationIntentionalClose' = s.isNotificationIntentionalClose
    /\ isNotificationConnected' = s.isNotificationConnected
    /\ notificationHeartbeatInterval' = s.notificationHeartbeatInterval
    /\ notificationIntervals' = s.intervals
    /\ notificationTimers' = s.timers
    /\ notificationDelays' = s.delays
    /\ fx' = s.fx
    /\ ev' = [op |-> op, sock |-> NULL, arg |-> arg]
    /\ UNCHANGED <<chatVars, envVars, webSocketListenersSetup, useChatVars, pollingVars>>

\* attemptWebSocketConnection(force) up to its first await: the number of
\* calls that await after it
attemptWebSocketConnection(force) ==
    IF hasAttemptedConnection /\ ~force THEN appAttempts ELSE appAttempts + 1

\* setup and mount of the component: the watcher of isAuthenticated runs
\* immediately (wasAuthenticated undefined), then onMounted
AppMounted(authenticated) ==
    /\ appMounted = "no"
    /\ appMounted' = "mounted"
    /\ isAuthenticated' = authenticated
    /\ appAttempts' = IF authenticated THEN attemptWebSocketConnection(FALSE) ELSE appAttempts
    /\ eventListeners' = setupNotificationWebSocket(eventListeners, wsSetupComplete)
    /\ wsSetupComplete' = TRUE
    /\ appFallbackTimers' = IF authenticated /\ ~hasAttemptedConnection
                            THEN appFallbackTimers + 1 ELSE appFallbackTimers
    /\ UNCHANGED <<hasAttemptedConnection, appLoginTimers>>
    /\ AppStep(NotificationState, "App.mounted", authenticated)

\* the timeout of the fallback of onMounted: attemptWebSocketConnection()
AppFallbackTimeout ==
    /\ appFallbackTimers > 0
    /\ attemptWebSocketConnection(FALSE) <= MaxAttempts
    /\ appFallbackTimers' = appFallbackTimers - 1
    /\ appAttempts' = attemptWebSocketConnection(FALSE)
    /\ UNCHANGED <<appMounted, isAuthenticated, hasAttemptedConnection, wsSetupComplete,
                   appLoginTimers, eventListeners>>
    /\ AppStep(NotificationState, "App.fallbackTimeout", hasAttemptedConnection)

\* the timeout of the watcher after a fresh login: attemptWebSocketConnection(true)
AppLoginTimeout ==
    /\ appLoginTimers > 0
    /\ attemptWebSocketConnection(TRUE) <= MaxAttempts
    /\ appLoginTimers' = appLoginTimers - 1
    /\ appAttempts' = attemptWebSocketConnection(TRUE)
    /\ UNCHANGED <<appMounted, isAuthenticated, hasAttemptedConnection, wsSetupComplete,
                   appFallbackTimers, eventListeners>>
    /\ AppStep(NotificationState, "App.loginTimeout", hasAttemptedConnection)

\* attemptWebSocketConnection after initializeAuth() resolved
AppAttemptResumed ==
    /\ appAttempts > 0
    /\ appAttempts' = appAttempts - 1
    /\ LET s == connectToNotifications(NotificationState)
       IN IF token # "memory"
          THEN /\ hasAttemptedConnection' = FALSE
               /\ AppStep(NotificationState, "App.attempt", "no token")
          ELSE /\ hasAttemptedConnection' = ~Threw(s.fx)
               /\ AppStep(s, "App.attempt", "connectToNotifications")
    /\ UNCHANGED <<appMounted, isAuthenticated, wsSetupComplete, appFallbackTimers,
                   appLoginTimers, eventListeners>>

\* the watcher of isAuthenticated after the value changed
AuthenticatedChanged ==
    /\ appMounted = "mounted"
    /\ isAuthenticated' = ~isAuthenticated
    /\ IF ~isAuthenticated
       THEN /\ appLoginTimers < MaxLoginTimers
            /\ appLoginTimers' = appLoginTimers + 1
            /\ UNCHANGED hasAttemptedConnection
            /\ AppStep(NotificationState, "App.watch", TRUE)
       ELSE /\ hasAttemptedConnection' = FALSE
            /\ UNCHANGED appLoginTimers
            /\ AppStep(disconnectFromNotifications(NotificationState), "App.watch", FALSE)
    /\ UNCHANGED <<appMounted, wsSetupComplete, appAttempts, appFallbackTimers,
                   eventListeners>>

\* onUnmounted of the component; its timeouts and the calls that await go on
AppUnmounted ==
    /\ appMounted = "mounted"
    /\ appMounted' = "unmounted"
    /\ UNCHANGED <<isAuthenticated, hasAttemptedConnection, wsSetupComplete, appAttempts,
                   appFallbackTimers, appLoginTimers, eventListeners>>
    /\ AppStep(disconnectFromNotifications(NotificationState), "App.unmounted", NoThread)

AppNext ==
    \/ \E authenticated \in BOOLEAN : AppMounted(authenticated)
    \/ AppFallbackTimeout
    \/ AppLoginTimeout
    \/ AppAttemptResumed
    \/ AuthenticatedChanged
    \/ AppUnmounted
    \/ \E t \in {"none", "memory"} : SetToken(t)
    \/ \E i \in SocketIds : NotificationSocketOpen(i)
    \/ \E i \in SocketIds, code \in CloseCodes : NotificationSocketClose(i, code)
    \/ NotificationReconnectTimeout

SpecApp == Init /\ [][AppNext]_vars

----------------------------------------------------------------------------
(* The listener registry on its own: components register and remove *)
(* callbacks, socket handlers trigger events                        *)

MaxListeners == 2        \* callbacks registered for one event

RegistryEvents == {"chat.error", "notification.message"}

Callbacks == {"cbA", "cbB", "cbThrows"}

RegistryStep(listeners, op, event, callback) ==
    /\ eventListeners' = listeners
    /\ ev' = [op |-> op, sock |-> NULL, arg |-> <<event, callback>>]
    /\ fx' = <<>>
    /\ UNCHANGED <<webSocketListenersSetup, envVars, chatVars, notificationVars,
                   useChatVars, pollingVars, appVars>>

On(event, callback) ==
    /\ IF event \in DOMAIN eventListeners
       THEN Len(eventListeners[event]) < MaxListeners ELSE TRUE
    /\ RegistryStep(on(eventListeners, event, callback), "on", event, callback)

Off(event, callback) ==
    RegistryStep(off(eventListeners, event, callback), "off", event, callback)

RemoveAllListeners(event) ==
    RegistryStep(removeAllListeners(eventListeners, event), "removeAllListeners", event, "")

\* removeAllListeners(): this.eventListeners.clear()
ClearListeners ==
    RegistryStep(<<>>, "removeAllListeners", "", "")

\* a socket handler reaches this.trigger(event, data)
Trigger(event, data) ==
    /\ fx' = trigger([fx |-> <<>>], event, data).fx
    /\ ev' = [op |-> "trigger", sock |-> NULL, arg |-> <<event, data>>]
    /\ UNCHANGED <<registryVars, envVars, chatVars, notificationVars,
                   useChatVars, pollingVars, appVars>>

RegistryNext ==
    \/ \E e \in RegistryEvents, c \in Callbacks : On(e, c)
    \/ \E e \in RegistryEvents, c \in Callbacks : Off(e, c)
    \/ \E e \in RegistryEvents : RemoveAllListeners(e)
    \/ ClearListeners
    \/ \E e \in RegistryEvents, d \in {"d1", "d2"} : Trigger(e, d)

SpecRegistry == Init /\ [][RegistryNext]_vars

----------------------------------------------------------------------------
(* The chat socket's message handler over every kind of frame *)

FanoutNext ==
    \/ UseChat
    \/ \E t \in Threads : ConnectToChat(t)
    \/ \E i \in SocketIds : ChatSocketOpen(i)
    \/ \E i \in SocketIds, raw \in RawFrames : ChatSocketMessage(i, raw)
    \/ \E t \in {"none", "memory"} : SetToken(t)

SpecFanout == Init /\ [][FanoutNext]_vars

----------------------------------------------------------------------------
(* useChat: selecting a thread and sending messages (the code of sendMessage *)
(* is the same in both variants of useChat)                                  *)

MaxPending == 2          \* requests in flight at the same time

MaxStored == 2           \* messages the server stores in a behaviour

MaxClock == 1            \* milliseconds Date.now() advances in a behaviour

\* `temp-${Date.now()}`
TempId(ms) == <<"temp-", ms>>

\* id.startsWith('temp-')
StartsWithTemp(id) == id[1] = "temp-"

\* the id the server gives its n-th message
ServerId(n) == <<"msg-", n>>

\* Array.prototype.findIndex(m => m.id === id): 0 for -1
FindIndexOfId(list, id) ==
    IF \E i \in DOMAIN list : list[i].id = id
    THEN Lowest({i \in DOMAIN list : list[i].id = id})
    ELSE 0

IsNotTemp(m) == ~StartsWithTemp(m.id)

\* the messages of a thread as the server lists them, oldest first
ServerPage(thread) ==
    LET OfThread(m) == m.thread = thread IN SelectSeq(serverMessages, OfThread)

\* messages a page of chatAPI.listMessages holds
PageSize == 2

\* Array.prototype.reverse
Reverse(list) == [i \in 1..Len(list) |-> list[Len(list) + 1 - i]]

\* what chatAPI.listMessages(thread, { cursor }) resolves to: a page of the
\* messages of the thread, newest first, and the cursor of the page of the
\* next older messages; a cursor is the number of messages that are older
\* than the pages before it
listMessages(thread, cursor) ==
    LET all == ServerPage(thread)
        last == IF cursor = NoCursor THEN Len(all) ELSE Min(cursor, Len(all))
        first == IF last > PageSize THEN last - PageSize + 1 ELSE 1
    IN [results |-> Reverse(SubSeq(all, first, last)),
        next |-> IF first > 1 THEN first - 1 ELSE NoCursor]

\* a request of the call named call; stayed: selectedThreadId has been the
\* thread of the call since the call; kept: no fetched page has replaced
\* messages since the call; message: the id the server gave the message of
\* the request once it has stored it
Request(call, thread, temp) ==
    [call |-> call, thread |-> thread, temp |-> temp, stayed |-> TRUE, kept |-> TRUE,
     message |-> NoMessage]

Await(requests, request) == requests (+) SetToBag({request})

Settle(requests, request) == requests (-) SetToBag({request})

RECURSIVE RequestsIn(_, _)
RequestsIn(requests, P) ==
    IF P = {} THEN 0
    ELSE LET p == CHOOSE q \in P : TRUE
         IN requests[p] + RequestsIn(requests, P \ {p})

\* the requests in flight once selectedThreadId is thread
Selecting(thread) ==
    LET After(p) == [p EXCEPT !.stayed = @ /\ p.thread = thread]
    IN [q \in {After(p) : p \in BagToSet(pending)} |->
            RequestsIn(pending, {p \in BagToSet(pending) : After(p) = q})]

\* the requests in flight once a fetched page has replaced messages
Replaced(requests) ==
    LET After(p) == [p EXCEPT !.kept = FALSE]
    IN [q \in {After(p) : p \in BagToSet(requests)} |->
            RequestsIn(requests, {p \in BagToSet(requests) : After(p) = q})]

UseChatStep(op, arg) ==
    /\ ev' = [op |-> op, sock |-> NULL, arg |-> arg]
    /\ fx' = <<>>
    /\ UNCHANGED <<serviceVars, pollingVars, appVars, threadListVars, chatViewVars>>

\* selectThread up to its first await
SelectThread(threadId) ==
    /\ webSocketListenersSetup
    /\ BagCardinality(pending) < MaxPending
    /\ selectedThreadId' = threadId
    /\ error' = "null"
    /\ activeThreadId' = threadId
    /\ pending' = Await(Selecting(threadId), Request("selectThread", threadId, TempId(0)))
    /\ ev' = [op |-> "selectThread", sock |-> NULL, arg |-> threadId]
    /\ fx' = <<>>
    /\ UNCHANGED <<serviceVars, pollingVars, appVars, threadListVars, reactions,
                   currentThread, messagesNextCursor, hasMoreMessages, isLoadingMore,
                   useChatMounted, isChatPageVisible, threads, messages, now,
                   serverMessages>>

\* setChatPageVisibility, called by the chat page when it is mounted (true)
\* and unmounted (false)
SetChatPageVisibility(visible) ==
    /\ webSocketListenersSetup
    /\ isChatPageVisible' = visible
    /\ activeThreadId' = (IF visible THEN activeThreadId ELSE NoThread)
    /\ ev' = [op |-> "setChatPageVisibility", sock |-> NULL, arg |-> visible]
    /\ fx' = <<>>
    /\ UNCHANGED <<serviceVars, pollingVars, appVars, threadListVars, reactions,
                   currentThread, messagesNextCursor, hasMoreMessages, isLoadingMore,
                   useChatMounted, selectedThreadId, threads, messages, error, pending,
                   now, serverMessages>>

\* selectThread from the response of getThread to the await in fetchMessages
\* and from there to the await of markThreadAsRead; the rest of selectThread
\* is connectToChatWebSocket
SelectThreadFetched(p, ok) ==
    /\ BagIn(p, pending)
    /\ p.call = "selectThread"
    /\ IF ok
       THEN /\ currentThread' = p.thread
            /\ messages' = Reverse(listMessages(p.thread, NoCursor).results)
            /\ messagesNextCursor' = listMessages(p.thread, NoCursor).next
            /\ hasMoreMessages' = (listMessages(p.thread, NoCursor).next # NoCursor)
            /\ pending' = Replaced(Settle(pending, p))
            /\ UNCHANGED error
       ELSE /\ error' = "Failed to select thread"
            /\ pending' = Settle(pending, p)
            /\ UNCHANGED <<messages, currentThread, messagesNextCursor, hasMoreMessages>>
    /\ ev' = [op |-> "selectThread.fetched", sock |-> NULL,
              arg |-> [thread |-> p.thread, ok |-> ok]]
    /\ fx' = <<>>
    /\ UNCHANGED <<serviceVars, pollingVars, appVars, threadListVars, reactions,
                   isLoadingMore, useChatMounted, selectedThreadId, threads, now,
                   serverMessages,
                   activeThreadId, isChatPageVisible>>

\* sendMessage with no thread selected
SendMessageNoThread ==
    /\ webSocketListenersSetup
    /\ selectedThreadId = NoThread
    /\ UNCHANGED useChatVars
    /\ UseChatStep("sendMessage", [result |-> FALSE])

\* sendMessage up to its await
SendMessage ==
    /\ webSocketListenersSetup
    /\ selectedThreadId # NoThread
    /\ BagCardinality(pending) < MaxPending
    /\ messages' = Append(messages, [id |-> TempId(now), thread |-> selectedThreadId])
    /\ pending' = Await(pending, Request("sendMessage", selectedThreadId, TempId(now)))
    /\ UNCHANGED <<selectedThreadId, threads, error, now, serverMessages>>
    /\ UseChatStep("sendMessage", [temp |-> TempId(now)])

\* sendMessage after chatAPI.sendMessage resolved
SendMessageResolved(p) ==
    /\ BagIn(p, pending)
    /\ p.call = "sendMessage"
    /\ p.message = NoMessage => Len(serverMessages) < MaxStored
    /\ LET newMessage == IF p.message = NoMessage
                         THEN [id |-> ServerId(Len(serverMessages) + 1), thread |-> p.thread]
                         ELSE [id |-> p.message, thread |-> p.thread]
           tempIndex == FindIndexOfId(messages, p.temp)
       IN /\ serverMessages' = IF p.message = NoMessage
                               THEN Append(serverMessages, newMessage)
                               ELSE serverMessages
          /\ messages' = IF tempIndex # 0
                         THEN [messages EXCEPT ![tempIndex] = newMessage]
                         ELSE messages
          /\ lastMessage' = IF /\ \E i \in DOMAIN threads : threads[i] = selectedThreadId
                                /\ lastMessage[selectedThreadId] # NoMessage
                             THEN [lastMessage EXCEPT ![selectedThreadId] = newMessage.id]
                             ELSE lastMessage
          /\ ev' = [op |-> "sendMessage.resolved", sock |-> NULL,
                    arg |-> [temp |-> p.temp, stayed |-> p.stayed, kept |-> p.kept,
                             message |-> newMessage.id, result |-> TRUE]]
    /\ fx' = <<>>
    /\ pending' = Settle(pending, p)
    /\ UNCHANGED <<serviceVars, pollingVars, appVars, chatViewVars, selectedThreadId, threads, error,
                   now, unreadCount, pendingCountVars>>

\* sendMessage after chatAPI.sendMessage rejected: the catch block
SendMessageRejected(p) ==
    /\ BagIn(p, pending)
    /\ p.call = "sendMessage"
    /\ messages' = SelectSeq(messages, IsNotTemp)
    /\ error' = "Failed to send message"
    /\ pending' = Settle(pending, p)
    /\ UNCHANGED <<selectedThreadId, threads, now, serverMessages>>
    /\ UseChatStep("sendMessage.rejected",
                   [temp |-> p.temp, stayed |-> p.stayed, result |-> FALSE])

\* a millisecond passes
DateNow ==
    /\ now < MaxClock
    /\ now' = now + 1
    /\ UNCHANGED <<selectedThreadId, threads, messages, error, pending, serverMessages>>
    /\ UseChatStep("Date.now", now + 1)

SendNext ==
    \/ UseChat
    \/ \E t \in Threads : SelectThread(t)
    \/ \E p \in BagToSet(pending), ok \in BOOLEAN : SelectThreadFetched(p, ok)
    \/ SendMessageNoThread
    \/ SendMessage
    \/ \E p \in BagToSet(pending) : SendMessageResolved(p)
    \/ \E p \in BagToSet(pending) : SendMessageRejected(p)
    \/ DateNow

SpecSend == Init /\ [][SendNext]_vars

----------------------------------------------------------------------------
(* useChat: selectThread await by await, loadMoreMessages from the scroll  *)
(* handler of the message list                                             *)

MaxPosted == 3           \* messages other users post in a behaviour

\* a request of fetchMessages(thread, cursor)
PageRequest(call, thread, cursor) ==
    [call |-> call, thread |-> thread, temp |-> TempId(0), stayed |-> TRUE, kept |-> TRUE,
     message |-> NoMessage, cursor |-> cursor]

\* another user posts to a thread and no event reaches this client
ThreadPosted(thread) ==
    /\ Len(serverMessages) < MaxPosted
    /\ serverMessages' = Append(serverMessages,
                                [id |-> ServerId(Len(serverMessages) + 1), thread |-> thread])
    /\ ev' = [op |-> "posted", sock |-> NULL, arg |-> thread]
    /\ fx' = <<>>
    /\ UNCHANGED <<serviceVars, pollingVars, appVars, threadListVars, chatViewVars,
                   selectedThreadId, threads, messages, error, pending, now>>

\* selectThread after chatAPI.getThread resolved, up to the await in fetchMessages
GetThreadResolved(p) ==
    /\ BagIn(p, pending)
    /\ p.call = "selectThread"
    /\ currentThread' = p.thread
    /\ pending' = Await(Settle(pending, p), [p EXCEPT !.call = "fetchMessages"])
    /\ ev' = [op |-> "getThread.resolved", sock |-> NULL, arg |-> p.thread]
    /\ fx' = <<>>
    /\ UNCHANGED <<serviceVars, pollingVars, appVars, threadListVars, reactions,
                   messagesNextCursor, hasMoreMessages, isLoadingMore, useChatMounted,
                   selectedThreadId, threads, messages, error, now, serverMessages,
                   activeThreadId, isChatPageVisible>>

\* fetchMessages(thread) after chatAPI.listMessages resolved, and selectThread
\* from there to the await of markThreadAsRead
FetchMessagesResolved(p) ==
    /\ BagIn(p, pending)
    /\ p.call = "fetchMessages"
    /\ LET response == listMessages(p.thread, NoCursor)
       IN /\ messages' = Reverse(response.results)
          /\ messagesNextCursor' = response.next
          /\ hasMoreMessages' = (response.next # NoCursor)
    /\ pending' = Await(Replaced(Settle(pending, p)),
                        [p EXCEPT !.call = "markThreadAsRead", !.kept = FALSE])
    /\ ev' = [op |-> "fetchMessages.resolved", sock |-> NULL, arg |-> p.thread]
    /\ fx' = <<>>
    /\ UNCHANGED <<serviceVars, pollingVars, appVars, threadListVars, reactions,
                   currentThread, isLoadingMore, useChatMounted, selectedThreadId, threads,
                   error, now, serverMessages,
                   activeThreadId, isChatPageVisible>>

\* selectThread after chatAPI.markThreadAsRead resolved: the unread count of
\* the thread is cleared and connectToChatWebSocket is called
MarkThreadAsReadResolved(p) ==
    /\ BagIn(p, pending)
    /\ p.call = "markThreadAsRead"
    /\ pending' = Settle(pending, p)
    /\ unreadCount' = IF \E i \in DOMAIN threads : threads[i] = p.thread
                      THEN [unreadCount EXCEPT ![p.thread] = 0]
                      ELSE unreadCount
    /\ ChatAssign(connectToChat(ChatState, p.thread), "connectToChat", NULL, p.thread)
    /\ afterChatDisconnect' = FALSE
    /\ UNCHANGED <<notificationVars, registryVars, envVars, pollingVars, appVars,
                   selectedThreadId, threads, messages, now, serverMessages, lastMessage,
                   pendingCountVars, chatViewVars>>

\* handleScroll of the message list at scrollTop 0, and loadMoreMessages up
\* to the await in fetchMessages
HandleScroll ==
    /\ webSocketListenersSetup
    /\ ~isLoadingMore
    /\ hasMoreMessages
    /\ IF selectedThreadId # NoThread /\ messagesNextCursor # NoCursor
       THEN /\ BagCardinality(pending) < MaxPending
            /\ isLoadingMore' = TRUE
            /\ pending' = Await(pending, PageRequest("loadMoreMessages", selectedThreadId,
                                                     messagesNextCursor))
       ELSE UNCHANGED <<isLoadingMore, pending>>
    /\ ev' = [op |-> "handleScroll", sock |-> NULL, arg |-> messagesNextCursor]
    /\ fx' = <<>>
    /\ UNCHANGED <<serviceVars, pollingVars, appVars, threadListVars, reactions,
                   currentThread, messagesNextCursor, hasMoreMessages, useChatMounted,
                   selectedThreadId, threads, messages, error, now, serverMessages,
                   activeThreadId, isChatPageVisible>>

\* fetchMessages(thread, cursor) after chatAPI.listMessages resolved, and
\* handleScroll after loadMoreMessages
LoadMoreMessagesResolved(p) ==
    /\ BagIn(p, pending)
    /\ p.call = "loadMoreMessages"
    /\ LET response == listMessages(p.thread, p.cursor)
       IN /\ messages' = messages \o response.results
          /\ messagesNextCursor' = response.next
          /\ hasMoreMessages' = (response.next # NoCursor)
    /\ isLoadingMore' = FALSE
    /\ pending' = Settle(pending, p)
    /\ ev' = [op |-> "loadMoreMessages.resolved", sock |-> NULL,
              arg |-> [thread |-> p.thread, stayed |-> p.stayed]]
    /\ fx' = <<>>
    /\ UNCHANGED <<serviceVars, pollingVars, appVars, threadListVars, reactions,
                   currentThread, useChatMounted, selectedThreadId, threads, error, now,
                   serverMessages,
                   activeThreadId, isChatPageVisible>>

ThreadNext ==
    \/ UseChat
    \/ SetToken("memory")
    \/ \E t \in Threads : ThreadPosted(t)
    \/ \E t \in Threads : SelectThread(t)
    \/ \E p \in BagToSet(pending) : GetThreadResolved(p)
    \/ \E p \in BagToSet(pending) : FetchMessagesResolved(p)
    \/ \E p \in BagToSet(pending) : MarkThreadAsReadResolved(p)
    \/ HandleScroll
    \/ \E p \in BagToSet(pending) : LoadMoreMessagesResolved(p)
    \/ \E i \in SocketIds : ChatSocketClose(i, 1000)

SpecThread == Init /\ [][ThreadNext]_vars

----------------------------------------------------------------------------
(* useChat: the component that called useChat() unmounts while the App *)
(* component holds the notification socket                             *)

\* the events whose listeners onUnmounted removes, in its order
UnmountedEvents ==
    <<"chat.connected", "chat.disconnected", "chat.message.new", "chat.message.updated",
      "chat.message.deleted", "chat.typing.start", "chat.typing.stop", "chat.receipt.read",
      "chat.reaction.added", "chat.reaction.removed", "chat.thread.updated",
      "chat.member.added", "chat.member.removed", "chat.ping", "chat.pong",
      "unread.counts.initial", "chat.error">>

RECURSIVE RemoveEach(_, _, _)
RemoveEach(listeners, events, i) ==
    IF i > Len(events) THEN listeners
    ELSE RemoveEach(removeAllListeners(listeners, events[i]), events, i + 1)

\* onUnmounted with removeAllListeners() for the calls with an event
onUnmountedClear(listeners) == <<>>

\* the removeAllListeners calls of onUnmounted: the registry after them
onUnmounted(listeners) == RemoveEach(listeners, UnmountedEvents, 1)

\* onUnmounted of a component that called useChat()
UseChatUnmounted ==
    /\ useChatMounted > 0
    /\ useChatMounted' = useChatMounted - 1
    /\ ChatAssign(disconnectFromChat(ChatState), "useChat.unmounted", NULL, NoThread)
    /\ afterChatDisconnect' = TRUE
    /\ eventListeners' = onUnmounted(eventListeners)
    /\ activeThreadId' = NoThread
    /\ UNCHANGED <<notificationVars, webSocketListenersSetup, envVars, pollingVars, appVars,
                   selectedThreadId, threads, messages, pending, now, serverMessages,
                   threadListVars, reactions, currentThread, messagesNextCursor,
                   hasMoreMessages, isLoadingMore, isChatPageVisible>>

\* the open event of a chat socket while the notification socket is in use
ChatSocketOpenBeside(i) ==
    /\ chatSockets[i] = "CONNECTING"
    /\ ChatAssign(handleChatOpen([ChatState EXCEPT !.sockets[i] = "OPEN"]),
                  "handleChatOpen", i, NoThread)
    /\ UNCHANGED <<notificationVars, registryVars, envVars, pollingVars, appVars,
                   selectedThreadId, threads, messages, pending, now, serverMessages,
                   threadListVars, chatViewVars, afterChatDisconnect>>

UnmountNext ==
    \/ UseChat
    \/ SetToken("memory")
    \/ ConnectToNotifications
    \/ \E i \in SocketIds : NotificationSocketOpen(i)
    \/ \E t \in Threads : SelectThread(t)
    \/ \E p \in BagToSet(pending) : GetThreadResolved(p)
    \/ \E p \in BagToSet(pending) : FetchMessagesResolved(p)
    \/ \E p \in BagToSet(pending) : MarkThreadAsReadResolved(p)
    \/ \E i \in SocketIds : ChatSocketOpenBeside(i)
    \/ UseChatUnmounted

SpecUnmount == Init /\ [][UnmountNext]_vars

----------------------------------------------------------------------------
(* useChat: the messages that arrive over the chat socket *)

MaxUnread == 1           \* unread messages counted for a thread

\* the listener of 'chat.message.new' without the test of the thread
chatMessageNewAnyThread(list, selected, newMessage) ==
    IF ~\E i \in DOMAIN list : list[i].id = newMessage.id
    THEN Append(list, newMessage)
    ELSE list

\* the listener of 'chat.message.new': messages after it
chatMessageNew(list, selected, newMessage) ==
    IF selected = newMessage.thread /\ ~\E i \in DOMAIN list : list[i].id = newMessage.id
    THEN Append(list, newMessage)
    ELSE list

\* the last message the server has stored for a thread
LastStored(thread) ==
    IF ServerPage(thread) = <<>> THEN NoMessage
    ELSE ServerPage(thread)[Len(ServerPage(thread))].id

\* fetchThreads that does not apply the pending unread counts
fetchThreadsAsFetched(list, counts) == [t \in Threads |-> 0]

\* fetchThreads after the response: unread_count of the threads, every
\* thread read on the server, with the pending unread counts applied
fetchThreads(list, counts) ==
    [t \in Threads |-> IF (\E i \in DOMAIN list : list[i] = t) /\ t \in DOMAIN counts
                       THEN counts[t]
                       ELSE 0]

\* fetchThreads, from the request to its response: the thread list as the
\* server has it
FetchThreads(list) ==
    /\ webSocketListenersSetup
    /\ threads' = list
    /\ error' = "null"
    /\ lastMessage' = [t \in Threads |-> LastStored(t)]
    /\ unreadCount' = fetchThreads(list, pendingUnreadCounts)
    /\ pendingUnreadCounts' = <<>>
    /\ hasInitializedThreads' = TRUE
    /\ isAutoFetchingThreads' = FALSE
    /\ ev' = [op |-> "fetchThreads", sock |-> NULL, arg |-> list]
    /\ fx' = <<>>
    /\ UNCHANGED <<serviceVars, pollingVars, appVars, chatViewVars, selectedThreadId, messages,
                   pending, now, serverMessages>>

\* isThreadActive of the listener of 'chat.message.new'
isThreadActive(thread) == activeThreadId = thread /\ isChatPageVisible

\* the listener of 'chat.message.new' that counts the user's own messages too
unreadAfterMessageOfAnyone(count, isOwnMessage, active) ==
    IF ~active THEN count + 1 ELSE count

\* the listener of 'chat.message.new': unread_count of the thread of the
\* message after it
unreadAfterMessage(count, isOwnMessage, active) ==
    IF ~isOwnMessage /\ ~active THEN count + 1 ELSE count

\* the listener of 'chat.message.new' runs with data.message = m; own: the
\* sender is the current user
ChatMessageNew(m, own) ==
    /\ webSocketListenersSetup
    /\ messages' = chatMessageNew(messages, selectedThreadId, m)
    /\ IF \E i \in DOMAIN threads : threads[i] = m.thread
       THEN /\ lastMessage' = [lastMessage EXCEPT ![m.thread] = m.id]
            /\ UNCHANGED pendingCountVars
            /\ unreadAfterMessage(unreadCount[m.thread], own, isThreadActive(m.thread))
                    <= MaxUnread
            /\ unreadCount' = [unreadCount EXCEPT ![m.thread] =
                    unreadAfterMessage(@, own, isThreadActive(m.thread))]
       ELSE UNCHANGED threadListVars
    /\ ev' = [op |-> "chat.message.new", sock |-> NULL,
              arg |-> [message |-> m, own |-> own, active |-> isThreadActive(m.thread)]]
    /\ fx' = <<>>
    /\ UNCHANGED <<serviceVars, pollingVars, appVars, chatViewVars, selectedThreadId, threads, error,
                   now>>

\* the event of a message the server has stored before
ChatMessageNewStored(m, own) ==
    /\ \E i \in DOMAIN serverMessages : serverMessages[i] = m
    /\ ChatMessageNew(m, own)
    /\ UNCHANGED <<pending, serverMessages>>

\* another user posts to a thread: the server stores the message and sends
\* the event
ChatMessageNewOther(thread) ==
    /\ Len(serverMessages) < MaxStored
    /\ LET m == [id |-> ServerId(Len(serverMessages) + 1), thread |-> thread]
       IN /\ serverMessages' = Append(serverMessages, m)
          /\ ChatMessageNew(m, FALSE)
    /\ UNCHANGED pending

\* the server stores the message of a sendMessage request and its event
\* reaches the client before the response of the request does
ChatMessageNewEcho(p) ==
    /\ BagIn(p, pending)
    /\ p.call = "sendMessage"
    /\ p.message = NoMessage
    /\ Len(serverMessages) < MaxStored
    /\ LET m == [id |-> ServerId(Len(serverMessages) + 1), thread |-> p.thread]
       IN /\ serverMessages' = Append(serverMessages, m)
          /\ pending' = Await(Settle(pending, p), [p EXCEPT !.message = m.id])
          /\ ChatMessageNew(m, TRUE)

RealtimeNext ==
    \/ UseChat
    \/ FetchThreads(<<"A">>)
    \/ \E t \in Threads : SelectThread(t)
    \/ \E p \in BagToSet(pending) : SelectThreadFetched(p, TRUE)
    \/ SendMessage
    \/ \E p \in BagToSet(pending) : SendMessageResolved(p)
    \/ \E i \in DOMAIN serverMessages, own \in BOOLEAN :
            ChatMessageNewStored(serverMessages[i], own)
    \/ \E t \in Threads : ChatMessageNewOther(t)
    \/ \E p \in BagToSet(pending) : ChatMessageNewEcho(p)

SpecRealtime == Init /\ [][RealtimeNext]_vars

----------------------------------------------------------------------------
\* the unread counts of the thread list: the chat page is entered and left,
\* threads are selected and events of the server arrive

\* fetchThreads, from the request to the rejection of chatAPI.listThreads
FetchThreadsRejected ==
    /\ webSocketListenersSetup
    /\ error' = "Failed to fetch threads"
    /\ isAutoFetchingThreads' = FALSE
    /\ ev' = [op |-> "fetchThreads.rejected", sock |-> NULL, arg |-> NoThread]
    /\ fx' = <<>>
    /\ UNCHANGED <<serviceVars, pollingVars, appVars, chatViewVars, selectedThreadId, threads,
                   messages, pending, now, serverMessages, lastMessage, unreadCount,
                   pendingUnreadCounts, hasInitializedThreads>>

\* Map.set
MapSet(map, key, value) ==
    [k \in DOMAIN map \cup {key} |-> IF k = key THEN value ELSE map[k]]

RECURSIVE SumOf(_, _)
\* the sum of counts[k] for the keys k
SumOf(counts, keys) ==
    IF keys = {} THEN 0
    ELSE LET k == CHOOSE k \in keys : TRUE
         IN counts[k] + SumOf(counts, keys \ {k})

\* the computed totalUnreadCount
totalUnreadCount ==
    SumOf(unreadCount, {threads[i] : i \in DOMAIN threads})
        + SumOf(pendingUnreadCounts, DOMAIN pendingUnreadCounts)

\* the listener of 'chat.unread.update' runs with data.thread_id = thread
\* and data.unread_count = count; the fetchThreads it starts runs up to its
\* await
ChatUnreadUpdate(thread, count) ==
    /\ webSocketListenersSetup
    /\ IF \E i \in DOMAIN threads : threads[i] = thread
       THEN /\ unreadCount' = [unreadCount EXCEPT ![thread] = count]
            /\ UNCHANGED <<pendingCountVars, error>>
       ELSE /\ pendingUnreadCounts' = MapSet(pendingUnreadCounts, thread, count)
            /\ IF ~hasInitializedThreads /\ ~isAutoFetchingThreads
               THEN /\ isAutoFetchingThreads' = TRUE
                    /\ error' = "null"
               ELSE UNCHANGED <<isAutoFetchingThreads, error>>
            /\ UNCHANGED <<unreadCount, hasInitializedThreads>>
    /\ ev' = [op |-> "chat.unread.update", sock |-> NULL,
              arg |-> [thread |-> thread, count |-> count]]
    /\ fx' = <<>>
    /\ UNCHANGED <<serviceVars, pollingVars, appVars, chatViewVars, selectedThreadId, threads,
                   messages, pending, now, serverMessages, lastMessage>>

UnreadNext ==
    \/ UseChat
    \/ \E list \in {<<"A">>, <<"A", "B">>} : FetchThreads(list)
    \/ \E visible \in BOOLEAN : SetChatPageVisibility(visible)
    \/ \E t \in Threads : SelectThread(t)
    \/ \E p \in BagToSet(pending) : SelectThreadFetched(p, TRUE)
    \/ \E i \in DOMAIN serverMessages, own \in BOOLEAN :
            ChatMessageNewStored(serverMessages[i], own)
    \/ \E t \in Threads : ChatMessageNewOther(t)

SpecUnread == Init /\ [][UnreadNext]_vars

\* the unread counts the server sends: updates arrive before and after the
\* thread list is fetched, for threads of the list and for others
PendingNext ==
    \/ UseChat
    \/ \E list \in {<<"A">>, <<"A", "B">>} : FetchThreads(list)
    \/ FetchThreadsRejected
    \/ \E t \in Threads, count \in 0..MaxUnread : ChatUnreadUpdate(t, count)
    \/ \E t \in Threads : ChatMessageNewOther(t)

SpecPending == Init /\ [][PendingNext]_vars

----------------------------------------------------------------------------
(* The polling variant of useChat: thread and message polling intervals, *)
(* the visibilitychange listener                                         *)

PollingState ==
    [threadPollingInterval |-> threadPollingInterval,
     messagePollingInterval |-> messagePollingInterval,
     intervals |-> pollingIntervals, full |-> FALSE, fx |-> <<>>]

\* setInterval(callback, ms): the callback of kind "threads" or of kind
\* "messages" with the threadId it captured
SetPollingInterval(s, kind, threadId) ==
    LET free == IntervalIds \ {i.id : i \in s.intervals}
    IN IF free = {} THEN [s EXCEPT !.full = TRUE]
       ELSE LET id == Lowest(free)
                interval == [id |-> id, kind |-> kind, thread |-> threadId]
            IN IF kind = "threads"
               THEN [s EXCEPT !.threadPollingInterval = id,
                              !.intervals = @ \cup {interval},
                              !.fx = Append(@, <<"setInterval", kind, id>>)]
               ELSE [s EXCEPT !.messagePollingInterval = id,
                              !.intervals = @ \cup {interval},
                              !.fx = Append(@, <<"setInterval", kind, id>>)]

\* startThreadPolling without the test of threadPollingInterval
startThreadPollingAgain(s) == SetPollingInterval(s, "threads", NoThread)

startThreadPolling(s) ==
    IF s.threadPollingInterval # NULL THEN s
    ELSE SetPollingInterval(s, "threads", NoThread)

stopThreadPolling(s) ==
    IF s.threadPollingInterval # NULL
    THEN [s EXCEPT !.intervals = {i \in @ : i.id # s.threadPollingInterval},
                   !.threadPollingInterval = NULL,
                   !.fx = Append(@, <<"clearInterval", "threads", s.threadPollingInterval>>)]
    ELSE s

stopMessagePolling(s) ==
    IF s.messagePollingInterval # NULL
    THEN [s EXCEPT !.intervals = {i \in @ : i.id # s.messagePollingInterval},
                   !.messagePollingInterval = NULL,
                   !.fx = Append(@, <<"clearInterval", "messages", s.messagePollingInterval>>)]
    ELSE s

startMessagePolling(s, threadId) ==
    SetPollingInterval(stopMessagePolling(s), "messages", threadId)

\* handleVisibilityChange with document.hidden = hidden
handleVisibilityChange(s, hidden) ==
    IF hidden
    THEN stopMessagePolling(stopThreadPolling(s))
    ELSE LET s1 == IF Len(threads) > 0 THEN startThreadPolling(s) ELSE s
         IN IF selectedThreadId # NoThread
            THEN startMessagePolling(s1, selectedThreadId)
            ELSE s1

\* the event reaches the n listeners that are registered on document
RECURSIVE DispatchVisibilityChange(_, _, _)
DispatchVisibilityChange(s, hidden, n) ==
    IF n = 0 THEN s
    ELSE DispatchVisibilityChange(handleVisibilityChange(s, hidden), hidden, n - 1)

\* the .then callback of the message poll: messages after the response
\* newMessages (oldest first)
MessagesAfterPoll(list, newMessages) ==
    LET newMessagesIndex ==
            IF list = <<>> THEN 0 ELSE FindIndexOfId(newMessages, list[Len(list)].id)
    IN IF newMessagesIndex # 0 /\ newMessagesIndex < Len(newMessages)
       THEN list \o SubSeq(newMessages, newMessagesIndex + 1, Len(newMessages))
       ELSE IF newMessagesIndex = 0 /\ Len(newMessages) > 0
            THEN newMessages
            ELSE list

\* what the server answers
ThreadLists == {<<>>, <<"A", "B">>}

Pages(thread) ==
    {<<>>, <<[id |-> ServerId(1), thread |-> thread]>>,
     <<[id |-> ServerId(1), thread |-> thread], [id |-> ServerId(2), thread |-> thread]>>}

PollingStep(result, op, arg) ==
    LET s == result IN
    /\ ~s.full
    /\ threadPollingInterval' = s.threadPollingInterval
    /\ messagePollingInterval' = s.messagePollingInterval
    /\ pollingIntervals' = s.intervals
    /\ fx' = s.fx
    /\ ev' = [op |-> op, sock |-> NULL, arg |-> arg]
    /\ UNCHANGED <<serviceVars, appVars, now, serverMessages, threadListVars, chatViewVars>>

\* a component calls useChat() of the polling variant in its setup
UsePollingChat ==
    /\ visibilityListeners < MaxMounted
    /\ visibilityListeners' = visibilityListeners + 1
    /\ PollingStep(PollingState, "usePollingChat", NoThread)
    /\ UNCHANGED <<documentHidden, selectedThreadId, threads, messages, error, pending>>

\* onUnmounted of a component that called useChat()
PollingUnmounted ==
    /\ visibilityListeners > 0
    /\ visibilityListeners' = visibilityListeners - 1
    /\ PollingStep(stopMessagePolling(stopThreadPolling(PollingState)), "onUnmounted", NoThread)
    /\ UNCHANGED <<documentHidden, selectedThreadId, threads, messages, error, pending>>

\* onMounted of the thread list up to the await in fetchThreads
ThreadListMounted ==
    /\ visibilityListeners > 0
    /\ BagCardinality(pending) < MaxPending
    /\ pending' = Await(pending, Request("onMounted", NoThread, TempId(0)))
    /\ error' = "null"
    /\ PollingStep(PollingState, "onMounted", NoThread)
    /\ UNCHANGED <<documentHidden, visibilityListeners, selectedThreadId, threads, messages>>

\* fetchThreads after listThreads settled, then the rest of onMounted
ThreadListFetched(p, ok, list) ==
    /\ BagIn(p, pending)
    /\ p.call = "onMounted"
    /\ pending' = Settle(pending, p)
    /\ IF ok THEN threads' = list /\ UNCHANGED error
       ELSE error' = "Failed to fetch threads" /\ UNCHANGED threads
    /\ PollingStep(startThreadPolling(PollingState), "onMounted.fetched", ok)
    /\ UNCHANGED <<documentHidden, visibilityListeners, selectedThreadId, messages>>

\* selectThread of the polling variant up to its first await
SelectThreadPolling(threadId) ==
    /\ visibilityListeners > 0
    /\ BagCardinality(pending) < MaxPending
    /\ selectedThreadId' = threadId
    /\ error' = "null"
    /\ pending' = Await(pending, Request("selectThread", threadId, TempId(0)))
    /\ PollingStep(PollingState, "selectThread", threadId)
    /\ UNCHANGED <<documentHidden, visibilityListeners, threads, messages>>

\* selectThread after getThread, listMessages and markThreadAsRead resolved
SelectThreadPollingDone(p, page) ==
    /\ BagIn(p, pending)
    /\ p.call = "selectThread"
    /\ pending' = Settle(pending, p)
    /\ messages' = page
    /\ PollingStep(startMessagePolling(PollingState, p.thread), "selectThread.done", p.thread)
    /\ UNCHANGED <<documentHidden, visibilityListeners, selectedThreadId, threads, error>>

\* selectThread after getThread rejected: the catch block
SelectThreadPollingFailed(p) ==
    /\ BagIn(p, pending)
    /\ p.call = "selectThread"
    /\ pending' = Settle(pending, p)
    /\ error' = "Failed to select thread"
    /\ PollingStep(PollingState, "selectThread.failed", p.thread)
    /\ UNCHANGED <<documentHidden, visibilityListeners, selectedThreadId, threads, messages>>

\* the tab is hidden or shown: document.hidden changes and the
\* visibilitychange event is dispatched
VisibilityChange ==
    /\ documentHidden' = ~documentHidden
    /\ PollingStep(DispatchVisibilityChange(PollingState, ~documentHidden, visibilityListeners),
                   "visibilitychange", ~documentHidden)
    /\ UNCHANGED <<visibilityListeners, selectedThreadId, threads, messages, error, pending>>

\* the interval callback of startThreadPolling
ThreadPollTick(i) ==
    /\ i \in pollingIntervals
    /\ i.kind = "threads"
    /\ IF ~documentHidden
       THEN /\ BagCardinality(pending) < MaxPending
            /\ pending' = Await(pending, Request("fetchThreads", NoThread, TempId(0)))
            /\ error' = "null"
            /\ PollingStep(Fx(PollingState, <<"request", "listThreads", NoThread>>),
                           "threadPollTick", i.id)
       ELSE /\ UNCHANGED <<pending, error>>
            /\ PollingStep(PollingState, "threadPollTick", i.id)
    /\ UNCHANGED <<documentHidden, visibilityListeners, selectedThreadId, threads, messages>>

\* fetchThreads of a poll after listThreads settled
FetchThreadsSettled(p, ok, list) ==
    /\ BagIn(p, pending)
    /\ p.call = "fetchThreads"
    /\ pending' = Settle(pending, p)
    /\ IF ok THEN threads' = list /\ UNCHANGED error
       ELSE error' = "Failed to fetch threads" /\ UNCHANGED threads
    /\ PollingStep(PollingState, "fetchThreads.settled", ok)
    /\ UNCHANGED <<documentHidden, visibilityListeners, selectedThreadId, messages>>

\* the interval callback of startMessagePolling(i.thread)
MessagePollTick(i) ==
    /\ i \in pollingIntervals
    /\ i.kind = "messages"
    /\ IF ~documentHidden /\ selectedThreadId = i.thread
       THEN /\ BagCardinality(pending) < MaxPending
            /\ pending' = Await(pending, Request("listMessages", i.thread, TempId(0)))
            /\ PollingStep(Fx(PollingState, <<"request", "listMessages", i.thread>>),
                           "messagePollTick", i.id)
       ELSE /\ UNCHANGED pending
            /\ PollingStep(PollingState, "messagePollTick", i.id)
    /\ UNCHANGED <<documentHidden, visibilityListeners, selectedThreadId, threads, messages,
                   error>>

\* the .then callback of the message poll
ListMessagesResolved(p, page) ==
    /\ BagIn(p, pending)
    /\ p.call = "listMessages"
    /\ pending' = Settle(pending, p)
    /\ messages' = MessagesAfterPoll(messages, page)
    /\ PollingStep(PollingState, "listMessages.resolved", p.thread)
    /\ UNCHANGED <<documentHidden, visibilityListeners, selectedThreadId, threads, error>>

\* the .catch callback of the message poll
ListMessagesRejected(p) ==
    /\ BagIn(p, pending)
    /\ p.call = "listMessages"
    /\ pending' = Settle(pending, p)
    /\ PollingStep(Fx(PollingState, <<"error", "Error polling messages">>),
                   "listMessages.rejected", p.thread)
    /\ UNCHANGED <<documentHidden, visibilityListeners, selectedThreadId, threads, messages,
                   error>>

PollingNext ==
    \/ UsePollingChat
    \/ PollingUnmounted
    \/ ThreadListMounted
    \/ \E p \in BagToSet(pending), ok \in BOOLEAN, list \in ThreadLists : ThreadListFetched(p, ok, list)
    \/ \E t \in Threads : SelectThreadPolling(t)
    \/ \E p \in BagToSet(pending) : \E page \in Pages(p.thread) : SelectThreadPollingDone(p, page)
    \/ \E p \in BagToSet(pending) : SelectThreadPollingFailed(p)
    \/ VisibilityChange
    \/ \E i \in pollingIntervals : ThreadPollTick(i)
    \/ \E p \in BagToSet(pending), ok \in BOOLEAN, list \in ThreadLists : FetchThreadsSettled(p, ok, list)
    \/ \E i \in pollingIntervals : MessagePollTick(i)
    \/ \E p \in BagToSet(pending) : \E page \in Pages(p.thread) : ListMessagesResolved(p, page)
    \/ \E p \in BagToSet(pending) : ListMessagesRejected(p)

SpecPolling == Init /\ [][PollingNext]_vars

----------------------------------------------------------------------------
(* useChat: optimistic reactions on the message "m" of messages, for a  *)
(* logged-in user                                                        *)

Emojis == {"like", "heart"}

\* currentUserId of the logged-in user
CurrentUser == "me"

\* the users of a reaction as the server lists them
UserLists == {<<"me">>, <<"other">>, <<"me", "other">>, <<"other", "me">>}

\* the reactions of a message as the server lists them: one entry per
\* emoji, each with users
ReactionLists ==
    {<<>>}
    \cup {<<r>> : r \in [emoji : Emojis, users : UserLists]}
    \cup {<<r1, r2>> : r1 \in [emoji : {"like"}, users : UserLists],
                       r2 \in [emoji : {"heart"}, users : UserLists]}
    \cup {<<r1, r2>> : r1 \in [emoji : {"heart"}, users : UserLists],
                       r2 \in [emoji : {"like"}, users : UserLists]}

\* message.reactions.findIndex(r => r.emoji === emoji): 0 for -1
FindReaction(list, emoji) ==
    IF \E i \in DOMAIN list : list[i].emoji = emoji
    THEN Lowest({i \in DOMAIN list : list[i].emoji = emoji})
    ELSE 0

\* the optimistic update of addReaction without the test for the user
addReactionNoFind(list, emoji) ==
    LET reactionIndex == FindReaction(list, emoji)
    IN IF reactionIndex # 0
       THEN [list EXCEPT ![reactionIndex].users = Append(@, CurrentUser)]
       ELSE Append(list, [emoji |-> emoji, users |-> <<CurrentUser>>])

\* the optimistic update of addReaction on message.reactions
addReaction(list, emoji) ==
    LET reactionIndex == FindReaction(list, emoji)
    IN IF reactionIndex # 0
       THEN IF \E i \in DOMAIN list[reactionIndex].users :
                    list[reactionIndex].users[i] = CurrentUser
            THEN list
            ELSE [list EXCEPT ![reactionIndex].users = Append(@, CurrentUser)]
       ELSE Append(list, [emoji |-> emoji, users |-> <<CurrentUser>>])

\* the optimistic update of removeReaction on message.reactions
removeReaction(list, emoji) ==
    LET reactionIndex == FindReaction(list, emoji)
        NotCurrentUser(u) == u # CurrentUser
        OtherEmoji(r) == r.emoji # emoji
    IN IF reactionIndex = 0 THEN list
       ELSE LET users == SelectSeq(list[reactionIndex].users, NotCurrentUser)
            IN IF users = <<>>
               THEN SelectSeq(list, OtherEmoji)
               ELSE [list EXCEPT ![reactionIndex].users = users]

\* what the reactions were before the call, if the handler that ran last
\* was addReaction on the same message and emoji
BeforeAdd(messageId, emoji) ==
    IF ev.op = "addReaction" /\ ev.arg.messageId = messageId /\ ev.arg.emoji = emoji
    THEN [known |-> TRUE, value |-> ev.arg.before]
    ELSE [known |-> FALSE, value |-> <<>>]

ReactionStep(op, messageId, emoji, ok) ==
    /\ ev' = [op |-> op, sock |-> NULL,
              arg |-> [messageId |-> messageId, emoji |-> emoji, before |-> reactions,
                       beforeAdd |-> BeforeAdd(messageId, emoji), result |-> ok]]
    /\ UNCHANGED <<serviceVars, pollingVars, appVars, threadListVars, threadViewVars,
                   selectedThreadId, threads, messages, pending, now, serverMessages>>

\* fetchMessages put the message "m" with the reactions the server lists
\* into messages, or a 'chat.connected' / 'chat.disconnected' listener ran
MessageLoaded(list, connected) ==
    /\ webSocketListenersSetup
    /\ reactions' = list
    /\ ev' = [op |-> "fetchMessages", sock |-> NULL, arg |-> list]
    /\ fx' = <<>>
    /\ UNCHANGED <<envVars, registryVars, notificationVars, pollingVars, appVars, threadListVars,
                   threadViewVars, selectedThreadId, threads, messages, error, pending, now, serverMessages,
                   chatSockets, chatWs, reconnectAttempts, isChatIntentionalClose,
                   currentThreadId, chatHeartbeatInterval, chatIntervals, chatTimers,
                   chatDelays, afterChatDisconnect>>
    /\ isWebSocketConnected' = connected

\* addReaction(messageId, emoji) with the chat socket connected: the
\* optimistic update, then websocketService.addChatReaction
AddReaction(messageId, emoji) ==
    /\ webSocketListenersSetup
    /\ isWebSocketConnected
    /\ reactions' = IF messageId = "m" THEN addReaction(reactions, emoji) ELSE reactions
    /\ fx' = sendChat(ChatState, "reaction.add").fx
    /\ UNCHANGED error
    /\ ReactionStep("addReaction", messageId, emoji, TRUE)

\* addReaction without the chat socket: the optimistic update, then the
\* response of chatAPI.addReaction replaces the message, or its failure
\* sets error
AddReactionRest(messageId, emoji, ok, updated) ==
    /\ webSocketListenersSetup
    /\ ~isWebSocketConnected
    /\ reactions' = IF messageId # "m" THEN reactions
                    ELSE IF ok THEN updated
                    ELSE addReaction(reactions, emoji)
    /\ error' = IF ok THEN error ELSE "Failed to add reaction"
    /\ fx' = <<<<"request", "addReaction", messageId>>>>
    /\ ReactionStep("addReaction.rest", messageId, emoji, ok)

\* removeReaction(messageId, emoji) with the chat socket connected
RemoveReaction(messageId, emoji) ==
    /\ webSocketListenersSetup
    /\ isWebSocketConnected
    /\ reactions' = IF messageId = "m" THEN removeReaction(reactions, emoji) ELSE reactions
    /\ fx' = sendChat(ChatState, "reaction.remove").fx
    /\ UNCHANGED error
    /\ ReactionStep("removeReaction", messageId, emoji, TRUE)

\* removeReaction without the chat socket
RemoveReactionRest(messageId, emoji, ok, updated) ==
    /\ webSocketListenersSetup
    /\ ~isWebSocketConnected
    /\ reactions' = IF messageId # "m" THEN reactions
                    ELSE IF ok THEN updated
                    ELSE removeReaction(reactions, emoji)
    /\ error' = IF ok THEN error ELSE "Failed to remove reaction"
    /\ fx' = <<<<"request", "removeReaction", messageId>>>>
    /\ ReactionStep("removeReaction.rest", messageId, emoji, ok)

ReactionNext ==
    \/ UseChat
    \/ \E list \in ReactionLists, connected \in BOOLEAN : MessageLoaded(list, connected)
    \/ \E id \in {"m", "gone"}, e \in Emojis : AddReaction(id, e)
    \/ \E id \in {"m", "gone"}, e \in Emojis : RemoveReaction(id, e)
    \/ \E id \in {"m", "gone"}, e \in Emojis, ok \in BOOLEAN :
            AddReactionRest(id, e, ok, addReaction(reactions, e))
    \/ \E id \in {"m", "gone"}, e \in Emojis, ok \in BOOLEAN :
            RemoveReactionRest(id, e, ok, removeReaction(reactions, e))

SpecReactions == Init /\ [][ReactionNext]_vars

----------------------------------------------------------------------------
(* Properties of the chat and notification connections (Spec) *)

\* the effects of the last handler that satisfy Test
Effects(Test(_)) == SelectSeq(fx, Test)

IsNewChatSocket(e) == e[1] = "new" /\ e[2] = "chat"

IsChatSetTimeout(e) == e[1] = "setTimeout" /\ e[2] = "chat"

IsNotificationSetTimeout(e) == e[1] = "setTimeout" /\ e[2] = "notification"

\* C1: after disconnectFromChat() has returned and until connectToChat is
\* called again, no handler creates a chat WebSocket or schedules a chat
\* reconnect: not a pending reconnect timer that fires, not the close event
\* of a socket, whatever its code.
C1_NothingAfterDisconnect ==
    afterChatDisconnect =>
        /\ Effects(IsNewChatSocket) = <<>>
        /\ Effects(IsChatSetTimeout) = <<>>

\* a reconnect timer that was pending at the disconnect has fired
C1_TimerFiredAfterDisconnect ==
    /\ afterChatDisconnect
    /\ ev.op = "chatReconnectTimeout"

\* the socket disconnectFromChat closed has reported its close, with the
\* code of a lost connection
C1_CloseAfterDisconnect ==
    /\ afterChatDisconnect
    /\ ev.op = "handleChatClose"
    /\ ev.arg = 1006

\* C2: both reconnect counters stay at or below maxReconnectAttempts (5); a
\* close event that is not intentional and arrives with the counter at 5
\* schedules no reconnect and leaves the counter at 5.
C2_CountersBounded ==
    /\ [](/\ reconnectAttempts <= 5
          /\ notificationReconnectAttempts <= 5)
    /\ [][/\ (ev'.op = "handleChatClose" /\ reconnectAttempts = 5)
              => (reconnectAttempts' = 5 /\ SelectSeq(fx', IsChatSetTimeout) = <<>>)
          /\ (ev'.op = "handleNotificationClose" /\ notificationReconnectAttempts = 5)
              => (/\ notificationReconnectAttempts' = 5
                  /\ SelectSeq(fx', IsNotificationSetTimeout) = <<>>)]_vars

\* the notification socket closed, not intentionally, with the counter at 5
\* (a lower counter would have been incremented)
C2_NotificationCloseAtLimit ==
    /\ ev.op = "handleNotificationClose"
    /\ ~isNotificationIntentionalClose
    /\ notificationReconnectAttempts = 5
    /\ Effects(IsNotificationSetTimeout) = <<>>

\* the same for the chat socket, with a thread connected and an abnormal code
C2_ChatCloseAtLimit ==
    /\ ev.op = "handleChatClose"
    /\ ev.arg = 1006
    /\ ~isChatIntentionalClose
    /\ currentThreadId # NoThread
    /\ reconnectAttempts = 5
    /\ Effects(IsChatSetTimeout) = <<>>

\* C3: the chat reconnect scheduled as attempt k (the counter after its
\* increment, 1 <= k <= 5) waits min(1000 * 2^(k-1), 30000) ms, the
\* notification reconnect 1000 * 2^(k-1) ms, and the delays of one outage
\* (the reconnects scheduled since the connection was last open) are
\* 1000, 2000, 4000, 8000, 16000: the first one of an outage is 1000 and no
\* delay is shorter than the one before it.
C3_BackoffPerOutage ==
    [][/\ \A i \in DOMAIN fx' :
            IsChatSetTimeout(fx'[i]) =>
                /\ reconnectAttempts' \in 1..5
                /\ fx'[i][3] = Min(1000 * 2^(reconnectAttempts' - 1), 30000)
                /\ chatDelays = 0 => fx'[i][3] = 1000
       /\ \A i \in DOMAIN fx' :
            IsNotificationSetTimeout(fx'[i]) =>
                /\ notificationReconnectAttempts' \in 1..5
                /\ fx'[i][3] = 1000 * 2^(notificationReconnectAttempts' - 1)
                /\ notificationDelays = 0 => fx'[i][3] = 1000]_vars

\* what scheduleChatReconnect and scheduleNotificationReconnect compute: the
\* delay of attempt k is the formula's, for the chat counter too, which no
\* handler resets; the first delay after an open notification socket is 1000
DelayOfAttempt ==
    [][/\ \A i \in DOMAIN fx' :
            IsChatSetTimeout(fx'[i]) =>
                /\ reconnectAttempts' = reconnectAttempts + 1
                /\ reconnectAttempts' \in 1..5
                /\ fx'[i][3] = Min(1000 * 2^(reconnectAttempts' - 1), 30000)
       /\ \A i \in DOMAIN fx' :
            IsNotificationSetTimeout(fx'[i]) =>
                /\ notificationReconnectAttempts' = notificationReconnectAttempts + 1
                /\ notificationReconnectAttempts' \in 1..5
                /\ fx'[i][3] = 1000 * 2^(notificationReconnectAttempts' - 1)
                /\ notificationDelays = 0 => fx'[i][3] = 1000]_vars

IsPong(e) == e[1] = "send" /\ e[2] = "chat" /\ e[4] = "pong"

IsChatPingCall(e) == e[1] = "call" /\ e[2] = "chat.ping"

\* C4: a 'ping' message received on an OPEN chat socket is answered with
\* exactly one pong frame, sent on the socket the ping arrived on and before
\* the 'chat.ping' listeners run; a message of another type is answered with
\* no pong.
C4_PongOnSameSocket ==
    ev.op = "handleChatMessage" =>
        IF ev.arg.valid /\ ev.arg.value.type = "ping"
        THEN /\ Effects(IsPong) = << <<"send", "chat", ev.sock, "pong">> >>
             /\ \A i, j \in DOMAIN fx : IsPong(fx[i]) /\ IsChatPingCall(fx[j]) => i < j
        ELSE Effects(IsPong) = <<>>

\* a 'ping' that arrives on the socket the service holds, OPEN, is answered
\* with one pong on it before the 'chat.ping' listeners run
PongOnServiceSocket ==
    (/\ ev.op = "handleChatMessage"
     /\ ev.arg.valid
     /\ ev.arg.value.type = "ping"
     /\ ev.sock = chatWs
     /\ chatSockets[ev.sock] = "OPEN") =>
        /\ Effects(IsPong) = << <<"send", "chat", ev.sock, "pong">> >>
        /\ \A i, j \in DOMAIN fx : IsPong(fx[i]) /\ IsChatPingCall(fx[j]) => i < j

\* C5: at most one chat and at most one notification heartbeat interval
\* exist, the one the service holds; a tick has sent a ping only with the
\* service's socket OPEN; after a close event and after disconnectFrom* the
\* respective interval is null.
C5_Heartbeats ==
    /\ Cardinality(chatIntervals) <= 1
    /\ Cardinality(notificationIntervals) <= 1
    /\ chatIntervals = (IF chatHeartbeatInterval = NULL THEN {} ELSE {chatHeartbeatInterval})
    /\ notificationIntervals =
          (IF notificationHeartbeatInterval = NULL THEN {} ELSE {notificationHeartbeatInterval})
    /\ (ev.op = "chatHeartbeatTick" /\ fx # <<>>)
          => (/\ chatWs # NULL /\ chatSockets[chatWs] = "OPEN"
              /\ fx = << <<"send", "chat", chatWs, "ping">> >>)
    /\ (ev.op = "notificationHeartbeatTick" /\ fx # <<>>)
          => (/\ notificationWs # NULL /\ notificationSockets[notificationWs] = "OPEN"
              /\ fx = << <<"send", "notification", notificationWs, "ping">> >>)
    /\ ev.op \in {"handleChatClose", "disconnectFromChat"} => chatHeartbeatInterval = NULL
    /\ ev.op \in {"handleNotificationClose", "disconnectFromNotifications"}
          => notificationHeartbeatInterval = NULL

IsClearInterval(e) == e[1] = "clearInterval"

\* a socket opened while a heartbeat was running: the start cleared it
C5_StartClearedPrevious ==
    /\ ev.op = "handleChatOpen"
    /\ Effects(IsClearInterval) # <<>>
    /\ chatHeartbeatInterval # NULL

\* a tick found the socket not OPEN and sent nothing
C5_TickWithoutSocket ==
    /\ ev.op = "chatHeartbeatTick"
    /\ fx = <<>>

\* a close event stopped the running heartbeat
C5_CloseStoppedHeartbeat ==
    /\ ev.op = "handleChatClose"
    /\ Effects(IsClearInterval) # <<>>

----------------------------------------------------------------------------
(* Properties of the listener registry (SpecRegistry) *)

IsCall(e) == e[1] = "call"

IsThrow(e) == e[1] = "throw"

\* the callbacks registered for an event
Registered(event) ==
    IF event \in DOMAIN eventListeners THEN eventListeners[event] ELSE <<>>

\* C6: trigger(event, data) calls the callbacks registered for the event at
\* that moment, each registration once, in registration order, with the
\* data; a callback that throws does not keep the later ones from being
\* called, and no exception leaves trigger.
C6_Dispatch ==
    ev.op = "trigger" =>
        LET event == ev.arg[1]
            data == ev.arg[2]
            calls == Effects(IsCall)
        IN /\ Len(calls) = Len(Registered(event))
           /\ \A i \in DOMAIN calls : calls[i] = <<"call", event, Registered(event)[i], data>>
           /\ Effects(IsThrow) = <<>>

\* an event was triggered with a throwing callback registered before another
\* callback
C6_ThrowingBeforeAnother ==
    /\ ev.op = "trigger"
    /\ Len(Registered(ev.arg[1])) = 2
    /\ Registered(ev.arg[1])[1] \in Throwing
    /\ Registered(ev.arg[1])[2] \notin Throwing
    /\ Len(Effects(IsCall)) = 2

----------------------------------------------------------------------------
(* Properties of the chat message handler (SpecFanout) *)

IsTrigger(e) == e[1] = "trigger"

\* the text contains the letters p, i, n, g in a row, in either case
ContainsPing(text) ==
    \E i \in 1..(Len(text) - 3) :
        /\ text[i] \in {"p", "P"}
        /\ text[i + 1] \in {"i", "I"}
        /\ text[i + 2] \in {"n", "N"}
        /\ text[i + 3] \in {"g", "G"}

C7_UnknownType ==
    /\ ev.op = "handleChatMessage"
    /\ ev.arg.valid
    /\ ev.arg.value.type = "presence"
    /\ Effects(IsTrigger) # <<>>

----------------------------------------------------------------------------
(* Properties of sendMessage (SpecSend) *)

\* C9: when a sendMessage call whose thread stayed selected returns true,
\* messages contains the server's message and no entry with the temp id of
\* that call, whatever other sendMessage calls did in between. The calls
\* considered are those during which no fetched page replaced messages, so
\* that only other sendMessage calls have touched the list, and whose temp
\* id no call still in flight shares (two calls of one millisecond do).
C9_SentMessageReplacesOptimistic ==
    (/\ ev.op = "sendMessage.resolved"
     /\ ev.arg.stayed
     /\ ev.arg.kept
     /\ \A q \in BagToSet(pending) : q.call = "sendMessage" => q.temp # ev.arg.temp) =>
        /\ \E i \in DOMAIN messages : messages[i].id = ev.arg.message
        /\ \A i \in DOMAIN messages : messages[i].id # ev.arg.temp

\* C10: a sendMessage call whose request fails removes the optimistic entry
\* it added and nothing else (the optimistic entries of other calls stay),
\* sets error and returns false. The entries with the temp id of the call
\* count as its own.
C10_FailedSendRemovesOwn ==
    [][ev'.op = "sendMessage.rejected" =>
            LET NotOwn(m) == m.id # ev'.arg.temp
            IN /\ messages' = SelectSeq(messages, NotOwn)
               /\ error' # "null"
               /\ ev'.arg.result = FALSE]_vars

----------------------------------------------------------------------------
(* Properties of the polling variant (SpecPolling) *)

\* C8: a tick of a polling interval with document.hidden true issues no
\* request, and after a visibilitychange event with document.hidden true
\* threadPollingInterval and messagePollingInterval are both null.
C8_PausedWhileHidden ==
    /\ (ev.op \in {"threadPollTick", "messagePollTick"} /\ documentHidden) => fx = <<>>
    /\ (ev.op = "visibilitychange" /\ documentHidden) =>
          (threadPollingInterval = NULL /\ messagePollingInterval = NULL)

\* what handleVisibilityChange does where it is registered: with a listener
\* of visibilitychange in place, the event with document.hidden true leaves
\* both intervals null
PausedWhileListening ==
    (ev.op = "visibilitychange" /\ documentHidden /\ visibilityListeners > 0) =>
        (threadPollingInterval = NULL /\ messagePollingInterval = NULL)

----------------------------------------------------------------------------
(* Properties of the messages that arrive over the chat socket (SpecRealtime) *)

C11_Appended ==
    /\ ev.op = "chat.message.new"
    /\ ev.arg.message.thread = selectedThreadId
    /\ messages # <<>>
    /\ messages[Len(messages)] = ev.arg.message

\* an event whose message is in messages already
C11_AlreadyPresent ==
    /\ ev.op = "chat.message.new"
    /\ ev.arg.message.thread = selectedThreadId
    /\ Cardinality({i \in DOMAIN messages : messages[i].id = ev.arg.message.id}) = 1
    /\ messages[Len(messages)] # ev.arg.message

----------------------------------------------------------------------------
(* Properties of the optimistic reactions (SpecReactions) *)

\* the number of times the current user is among the users of emoji
TimesReacted(list, emoji) ==
    LET k == FindReaction(list, emoji)
    IN IF k = 0 THEN 0
       ELSE Cardinality({i \in DOMAIN list[k].users : list[k].users[i] = CurrentUser})

\* no reaction of the list has an empty users list
NoEmptyReaction(list) == \A i \in DOMAIN list : list[i].users # <<>>

\* after addReaction(m, e) with the socket connected the current user is
\* among the users of e once; after removeReaction(m, e) the user is not
\* among them and no reaction is left without users
ReactedOnce ==
    /\ (ev.op = "addReaction" /\ ev.arg.messageId = "m") =>
          TimesReacted(reactions, ev.arg.emoji) = 1
    /\ (ev.op = "removeReaction" /\ ev.arg.messageId = "m") =>
          (TimesReacted(reactions, ev.arg.emoji) = 0 /\ NoEmptyReaction(reactions))

\* C12 as stated: addReaction(m, e) leaves the current user among the users
\* of e exactly once, removeReaction(m, e) removes the user and deletes a
\* reaction left without users, and removeReaction(m, e) right after
\* addReaction(m, e) restores the reactions of m to their value before the
\* add.
C12_AddThenRemoveRestores ==
    /\ ReactedOnce
    /\ (ev.op = "removeReaction" /\ ev.arg.messageId = "m" /\ ev.arg.beforeAdd.known) =>
          reactions = ev.arg.beforeAdd.value

\* C12, amended: the same, with the value before the add restored when the
\* current user was not among the users of e before the add; when the user
\* was (the add changed nothing), the remove takes the user out and leaves
\* the other emojis as they were.
C12_AddThenRemoveRestoresIfNew ==
    /\ ReactedOnce
    /\ (ev.op = "removeReaction" /\ ev.arg.messageId = "m" /\ ev.arg.beforeAdd.known) =>
          LET before == ev.arg.beforeAdd.value
              OtherEmoji(r) == r.emoji # ev.arg.emoji
          IN IF TimesReacted(before, ev.arg.emoji) = 0
             THEN reactions = before
             ELSE /\ reactions # before
                  /\ SelectSeq(reactions, OtherEmoji) = SelectSeq(before, OtherEmoji)

\* addReaction was called twice and removeReaction then, on an emoji other
\* users had reacted with: the reactions are those before the first add
C12_AddedTwiceThenRemoved ==
    /\ ev.op = "removeReaction"
    /\ ev.arg.messageId = "m"
    /\ ev.arg.beforeAdd.known
    /\ TimesReacted(ev.arg.beforeAdd.value, ev.arg.emoji) = 1
    /\ Len(reactions) = 2
    /\ reactions # ev.arg.beforeAdd.value

\* add and remove of a new emoji: the reaction the add created is deleted
C12_NewReactionDeleted ==
    /\ ev.op = "removeReaction"
    /\ ev.arg.messageId = "m"
    /\ ev.arg.beforeAdd.known
    /\ FindReaction(ev.arg.beforeAdd.value, ev.arg.emoji) = 0
    /\ ev.arg.beforeAdd.value # <<>>
    /\ reactions = ev.arg.beforeAdd.value

----------------------------------------------------------------------------
(* C13: no two entries of messages have the same id, whether the            *)
(* 'chat.message.new' event of a sent message arrives before or after the   *)
(* response of its sendMessage request. The ids compared are those the      *)
(* server gave: two optimistic entries of the same millisecond are not      *)
(* what the property is about.                                              *)
C13_NoDuplicateIds ==
    \A i, j \in DOMAIN messages :
        i # j /\ IsNotTemp(messages[i]) => messages[i].id # messages[j].id

----------------------------------------------------------------------------
(* C14: the close event of a chat socket that the service has closed and    *)
(* replaced by a new one leaves the new connection alone: it does not clear *)
(* isWebSocketConnected while the new socket is OPEN, it does not stop the  *)
(* heartbeat and it schedules no reconnection.                              *)
C14_ReplacedSocketClose ==
    [][/\ ev'.op = "handleChatClose"
       /\ chatWs # NULL
       /\ ev'.sock # chatWs
       /\ chatSockets[ev'.sock] = "CLOSING"
       => /\ chatSockets[chatWs] = "OPEN" /\ isWebSocketConnected => isWebSocketConnected'
          /\ chatHeartbeatInterval' = chatHeartbeatInterval
          /\ chatIntervals' = chatIntervals
          /\ chatTimers' = chatTimers]_vars

----------------------------------------------------------------------------
(* C15: at most one chat WebSocket is CONNECTING or OPEN at any time *)
C15_OneChatSocket ==
    Cardinality({i \in SocketIds : chatSockets[i] \in {"CONNECTING", "OPEN"}}) <= 1

----------------------------------------------------------------------------
(* C16: at most one notification WebSocket is CONNECTING or OPEN, however   *)
(* the attempts of the App component (the immediate watcher, the fallback   *)
(* of onMounted, the attempt after a fresh login) and the reconnect timers  *)
(* of the service interleave                                                *)
C16_OneNotificationSocket ==
    Cardinality({i \in SocketIds : notificationSockets[i] \in {"CONNECTING", "OPEN"}}) <= 1

----------------------------------------------------------------------------
\* isNotificationWsConnected(): this.notificationWs?.readyState === WebSocket.OPEN
isNotificationWsConnected ==
    notificationWs # NULL /\ notificationSockets[notificationWs] = "OPEN"

(* C17: isNotificationConnected is true only if the notification WebSocket  *)
(* exists and is OPEN, and isNotificationWsConnected() returns the value of *)
(* the flag                                                                 *)
C17_FlagMeansOpen ==
    /\ isNotificationConnected =>
            notificationWs # NULL /\ notificationSockets[notificationWs] = "OPEN"
    /\ isNotificationWsConnected = isNotificationConnected

----------------------------------------------------------------------------
(* C18: once all requests of the selectThread calls have completed, the     *)
(* thread shown is the thread selected: currentThread.id is                 *)
(* selectedThreadId and every entry of messages belongs to it, whatever     *)
(* the order in which the responses arrived                                 *)
C18_SelectedThreadShown ==
    selectedThreadId # NoThread /\ pending = EmptyBag
        => /\ currentThread = selectedThreadId
           /\ \A i \in DOMAIN messages : messages[i].thread = selectedThreadId

\* the entries of a list are in the order in which the server stored them
OldestFirst(list) ==
    \A i, j \in DOMAIN list : i < j => list[i].id[2] < list[j].id[2]

(* C19: messages is ordered oldest first after the initial fetchMessages    *)
(* and after every loadMoreMessages                                         *)
C19_OldestFirst ==
    ev.op \in {"fetchMessages.resolved", "loadMoreMessages.resolved"} => OldestFirst(messages)

\* the part of C19 about the initial load holds: the page is reversed
OldestFirstAfterInitialLoad ==
    ev.op = "fetchMessages.resolved" => OldestFirst(messages)

----------------------------------------------------------------------------
\* the callbacks of useChat are registered for an event
UseChatListens(listeners, event) ==
    event \in DOMAIN listeners /\ \E i \in DOMAIN listeners[event] : listeners[event][i] = "useChat"

(* C20: the unmount of a component that uses useChat disconnects the chat   *)
(* socket only: the listeners of useChat for 'chat.unread.update' and       *)
(* 'unread.count.update' are registered after it as before, and the         *)
(* notification socket is not closed, nothing of the notification           *)
(* connection changes                                                       *)
C20_UnmountKeepsNotifications ==
    [][ev'.op = "useChat.unmounted" =>
            /\ UseChatListens(eventListeners', "chat.unread.update")
            /\ UseChatListens(eventListeners', "unread.count.update")
            /\ eventListeners'["chat.unread.update"] = eventListeners["chat.unread.update"]
            /\ eventListeners'["unread.count.update"] = eventListeners["unread.count.update"]
            /\ \A i \in DOMAIN fx' : fx'[i][2] # "notification"
            /\ UNCHANGED notificationVars
            /\ chatWs' = NULL]_vars

\* the component unmounted with the notification socket and the chat socket
\* OPEN: the chat socket was closed, its heartbeat stopped, the listeners of
\* the chat events are gone
C20_UnmountedWithBothOpen ==
    /\ ev.op = "useChat.unmounted"
    /\ notificationWs # NULL /\ notificationSockets[notificationWs] = "OPEN"
    /\ \E i \in DOMAIN fx : fx[i][1] = "close" /\ fx[i][2] = "chat"
    /\ \E i \in DOMAIN fx : fx[i][1] = "clearInterval" /\ fx[i][2] = "chat"
    /\ "chat.message.new" \notin DOMAIN eventListeners

----------------------------------------------------------------------------
(* C21: whenever a chat socket opens while a component that uses useChat is *)
(* mounted, the listeners of useChat for the chat events are registered,    *)
(* also after an earlier component that used useChat was unmounted          *)
C21_ListenersWhenConnected ==
    ev.op = "handleChatOpen" /\ useChatMounted > 0
        => /\ UseChatListens(eventListeners, "chat.connected")
           /\ UseChatListens(eventListeners, "chat.message.new")

----------------------------------------------------------------------------
\* how many callbacks of useChat are registered for an event
UseChatListeners(event) ==
    Cardinality({i \in DOMAIN eventListeners[event] : eventListeners[event][i] = "useChat"})

\* how many callbacks of useChat the last handler called for an event
UseChatCalls(event) ==
    Cardinality({i \in DOMAIN fx :
                    fx[i][1] = "call" /\ fx[i][2] = event /\ fx[i][3] = "useChat"})

(* C22: however many times useChat() is called, useChat has at most one     *)
(* listener registered for every event name, and one event of the service   *)
(* calls a listener of useChat at most once                                 *)
C22_OneListenerPerEvent ==
    /\ \A event \in DOMAIN eventListeners : UseChatListeners(event) <= 1
    /\ \A i \in DOMAIN fx : fx[i][1] = "trigger" => UseChatCalls(fx[i][2]) <= 1

\* useChat() was called again after an unmount: the listeners the unmount
\* left are registered once, not twice
C22_CalledAgain ==
    /\ ev.op = "useChat"
    /\ ~UseChatListens(eventListeners, "chat.connected")
    /\ UseChatListeners("chat.unread.update") = 1
    /\ UseChatListeners("unread.count.update") = 1

\* C23: a 'chat.message.new' event for a thread T of the thread list adds
\* exactly 1 to unread_count of T if the sender is not the current user and
\* T is not active (activeThreadId = T with the chat page visible), and
\* leaves unread_count of T unchanged otherwise; unread_count of every other
\* thread is unchanged
C23_UnreadCounted ==
    [][ev'.op = "chat.message.new"
           /\ (\E i \in DOMAIN threads : threads[i] = ev'.arg.message.thread)
        => LET T == ev'.arg.message.thread
               counted == /\ ~ev'.arg.own
                          /\ ~(activeThreadId = T /\ isChatPageVisible)
           IN /\ unreadCount'[T] = unreadCount[T] + (IF counted THEN 1 ELSE 0)
              /\ \A t \in Threads \ {T} : unreadCount'[t] = unreadCount[t]]_vars

\* a message of another user arrived for the thread that is shown on the
\* visible chat page and was not counted, while the count of the other
\* thread of the list stands at 1 from an earlier message
C23_ActiveNotCounted ==
    /\ ev.op = "chat.message.new"
    /\ ~ev.arg.own
    /\ ev.arg.active
    /\ isChatPageVisible
    /\ threads = <<"A", "B">>
    /\ activeThreadId = ev.arg.message.thread
    /\ unreadCount[ev.arg.message.thread] = 0
    /\ \E t \in Threads : unreadCount[t] = 1

\* C24: an unread-count update for a thread that is not in threads is kept
\* in pendingUnreadCounts, the last value per thread replacing an earlier
\* one, and counted in totalUnreadCount; a successful fetchThreads sets
\* unread_count of every fetched thread that has a pending entry to the
\* pending value and leaves pendingUnreadCounts empty
C24_PendingUnreadCounts ==
    [][/\ (ev'.op = "chat.unread.update"
            /\ ~(\E i \in DOMAIN threads : threads[i] = ev'.arg.thread))
          => (LET T == ev'.arg.thread
                  before == IF T \in DOMAIN pendingUnreadCounts
                            THEN pendingUnreadCounts[T]
                            ELSE 0
              IN /\ DOMAIN pendingUnreadCounts' = DOMAIN pendingUnreadCounts \cup {T}
                 /\ pendingUnreadCounts'[T] = ev'.arg.count
                 /\ \A t \in DOMAIN pendingUnreadCounts \ {T} :
                        pendingUnreadCounts'[t] = pendingUnreadCounts[t]
                 /\ totalUnreadCount' = totalUnreadCount - before + ev'.arg.count)
       /\ (ev'.op = "fetchThreads")
          => (/\ \A i \in DOMAIN threads' :
                     threads'[i] \in DOMAIN pendingUnreadCounts
                         => unreadCount'[threads'[i]] = pendingUnreadCounts[threads'[i]]
              /\ DOMAIN pendingUnreadCounts' = {})]_vars

\* fetchThreads returned two threads and applied the pending count 1 of the
\* second, which was not in the list when its update arrived
C24_PendingApplied ==
    /\ ev.op = "fetchThreads"
    /\ threads = <<"A", "B">>
    /\ unreadCount["A"] = 0
    /\ unreadCount["B"] = 1
    /\ DOMAIN pendingUnreadCounts = {}
    /\ totalUnreadCount = 1

\* C25: in the polling variant at most one thread-polling interval and at
\* most one message-polling interval exist at any time, and a message-poll
\* tick issues a request only for the thread that is selected at the tick
PollingIntervalsOf(kind) == {i \in pollingIntervals : i.kind = kind}

C25_OneIntervalOfEachKind ==
    /\ Cardinality(PollingIntervalsOf("threads")) <= 1
    /\ Cardinality(PollingIntervalsOf("messages")) <= 1
    /\ ev.op = "messagePollTick"
          => \A k \in DOMAIN fx : fx[k][1] = "request" => fx[k][3] = selectedThreadId

\* selectThread finished for a second thread while the thread poll runs: it
\* cleared the message interval of the first thread before it set the new one
C25_PreviousStopped ==
    /\ ev.op = "selectThread.done"
    /\ Len(fx) = 2
    /\ fx[1][1] = "clearInterval"
    /\ fx[2][1] = "setInterval"
    /\ threadPollingInterval # NULL
    /\ Cardinality(PollingIntervalsOf("threads")) = 1
    /\ Cardinality(PollingIntervalsOf("messages")) = 1

\* a tick of the message interval issued the request for the selected thread
C25_PolledSelected ==
    /\ ev.op = "messagePollTick"
    /\ fx = <<<<"request", "listMessages", selectedThreadId>>>>

====
